---- MODULE Spec2Model ----
(***************************************************************************)
(* A model of the PCP client service (src/src/client.rs), its one-shot      *)
(* timers (src/src/event.rs) and the mapping records (src/src/state.rs).    *)
(*                                                                          *)
(* Conventions                                                              *)
(*  - table indices are 1-based here (Rust: 0-based); a nonce's first byte  *)
(*    is the table index of the record it was generated for.                *)
(*  - durations are whole milliseconds (Rust: f32 seconds turned into a     *)
(*    Duration); rng.gen::<f32>() in [0,1) is k/RandDen for k in Rands.     *)
(*  - the events of the user's handles and of the listeners are handled in  *)
(*    the step that delivers them; the Delay events of the timer threads    *)
(*    wait in `queue`, in the order they were sent. (An event of the user   *)
(*    or of a listener handled while a Delay event waits stands for the     *)
(*    same event sent just before the thread's channel.send: the handlers   *)
(*    treat a thread past its try_recv and one whose event waits alike.)    *)
(***************************************************************************)
EXTENDS Integers, Sequences, FiniteSets, TLC

(* ------------------------------ bounds --------------------------------- *)
MaxMaps == 2        \* records in the table (SpecRecovery)
MaxRaced == 1       \* records in the table (Spec, SpecSilent)
MaxResent == 0      \* retransmissions where retransmission is not the subject
MaxTimers == 2      \* timer threads alive at once
MaxRetrans == 1     \* the n of Starting(n) up to which its timer ends (Spec)
MaxTimes == 1       \* the n of Updating(n) up to which its timer ends (Spec)
MaxRepeat == 2      \* the renewals a Repeat request asks for
MaxBackoff == 11    \* the retransmissions of one request that are followed (SpecBackoff)
MaxSleep == 1200    \* the longest sleep that ends in SpecBackoff, in seconds
MaxFilters == 45    \* the filters the user adds to one mapping
MaxAge == 20        \* seconds since the stored epoch's Instant
MaxEpoch == 20      \* the server's clock (SpecEpoch)
MaxWait == 16       \* the longest sleep that ends, in seconds
RandDen == 2        \* the random draws are k/RandDen

(* ------------------------- program constants --------------------------- *)
IRT == 3
MRT == 1024
MRC == 0
MinRenew == 4
ShiftBits == 32

(* -------------------------- input domains ------------------------------ *)
Rands == 0 .. (RandDen - 1)
ShortLife == 6
LongLife == 16
ReqLifetimes == {LongLife}
RespLifetimes == {ShortLife, LongLife}
Epochs == {0, 3}
OpCodes == {"Map", "Peer"}
Kinds == {"Once", "Repeat", "KeepAlive"}
Success == 0
NoResources == 8
ResultCodes == {Success, NoResources}
Port == 6000
OtherPort == Port + 1
AssignedPort == 33000
RespPorts == {Port, OtherPort}
Tcp == 6
Hopopt == 0

MAX_PACKET_SIZE == 1100
RequestHeader_SIZE == 24
MapRequestPayload_SIZE == 36
PeerRequestPayload_SIZE == 56
OptionHeader_SIZE == 4
FilterOptionPayload_SIZE == 20
ThirdPartyOptionPayload_SIZE == 16

Terminal == {"Error", "Expired", "Revoked", "Dropped"}

(* ------------------------------ state ---------------------------------- *)
VARIABLES
    mappings,   \* Client::mappings : Seq of MappingState
    timers,     \* the threads spawned by Delay::by, by slot
    queue,      \* Event::Delay events in the service's channel, FIFO
    epoch,      \* Client::epoch : None, or the epoch and the age of its Instant
    alive,      \* the service thread is inside Client::run
    last        \* what the last step did (history, read by the properties only)

vars == <<mappings, timers, queue, epoch, alive, last>>

TimerIds == 1 .. MaxTimers
NoSignal == 0       \* Delay { signal: None }
DeadSignal == -1    \* Delay { signal: Some(tx) } whose thread has ended

\* stage: "free", or where the thread is: "sleep" (in thread::sleep), "checked"
\* (rx.try_recv() gave Err, channel.send not yet run), "sent" (ended, its event
\* in the channel); ign: "no", or when ignore() sent the signal: "early" (the
\* thread still asleep) or "late"; drp: its handle was dropped, not ignored,
\* while it slept
FreeTimer == [stage |-> "free", id |-> 0, dur |-> 0, ign |-> "no", drp |-> FALSE]

NoEpoch == [set |-> FALSE, e |-> 0, age |-> 0]

\* ev: the event handled; id, arg, res, ep: its fields (ep: the epoch of a
\* response); valid: validate_epoch's
\* answer; hit: the record find_map selected (0: none); sent: the datagrams
\* given to socket.send, in order; armed: the timer slots Delay::by started, in
\* order; ign, drp, cur: for a Delay event, whether ignore() had been called
\* on its timer, whether its handle had been dropped while it slept, and
\* whether the record's delay field held its handle; ok: the handler ran to
\* its end (no socket error, no panic).
NoStep == [ev |-> "env", op |-> "", id |-> 0, arg |-> 0, res |-> 0, ep |-> 0,
           valid |-> TRUE, hit |-> 0,
           sent |-> <<>>, armed |-> <<>>, ign |-> FALSE, drp |-> FALSE,
           cur |-> FALSE, ok |-> TRUE, fwd |-> "", back |-> FALSE, alert |-> <<>>,
           inp |-> <<>>, out |-> <<>>]

None == -1          \* Option::None of a duration

(* ------------------------- pure computations --------------------------- *)
RECURSIVE Pow2(_)
Pow2(n) == IF n = 0 THEN 1 ELSE 2 * Pow2(n - 1)

Min(a, b) == IF a < b THEN a ELSE b

\* 0.9 + rng.gen::<f32>() * 0.2, in thousandths
one_plus_rand(k) == 900 + (200 * k) \div RandDen

\* Duration::from_secs_f32(one_plus_rand(rng) * IRT), in ms
generate_irt(k) == (one_plus_rand(k) * IRT * 1000) \div 1000

\* a retransmission time that doubles without the ceiling of MRT
generate_rt_uncapped(k, rt_prev) == (one_plus_rand(k) * 2 * rt_prev) \div 1000

\* Duration::from_secs_f32(one_plus_rand(rng) * MRT.min(2.0 * rt_prev)), in ms
generate_rt(k, rt_prev) == (one_plus_rand(k) * Min(MRT * 1000, 2 * rt_prev)) \div 1000

\* `4 << times` and `denom - 1` are i32: at times = ShiftBits - 3 the shift
\* gives i32::MIN, `denom - 1` overflows (a panic in a debug build) and
\* `8 << times` is 0, so that ftime is infinite or NaN and
\* Duration::from_secs_f32 panics (a release build): the thread panics.
jitter_panics(times) == times >= ShiftBits - 3

\* lifetime as f32 * factor, in ms (None is -1)
jitter_ftime(lifetime, times, k) ==
    IF times = 0
    THEN lifetime * 500 + (lifetime * 125 * k) \div RandDen
    ELSE LET denom == Pow2(times + 2)
             base == lifetime * 1000 - ((lifetime * 1000 + denom - 1) \div denom)
             rnd == IF times + 3 < ShiftBits - 1
                    THEN (((lifetime * 1000 * k) \div RandDen) \div denom) \div 2
                    ELSE 0
         IN  base + rnd

jitter_lifetime(lifetime, times, k) ==
    IF jitter_ftime(lifetime, times, k) < MinRenew * 1000
    THEN None
    ELSE jitter_ftime(lifetime, times, k)

(* ------------------------------ timers --------------------------------- *)
FreeSlots(tm) == {t \in TimerIds : tm[t].stage = "free"}

\* the j-th free slot, lowest first (0: the model has no slot left)
RECURSIVE NthFree(_, _)
NthFree(tm, j) ==
    IF FreeSlots(tm) = {} THEN 0
    ELSE LET t == CHOOSE x \in FreeSlots(tm) : \A y \in FreeSlots(tm) : x <= y
         IN  IF j = 1 THEN t ELSE NthFree([tm EXCEPT ![t].stage = "taken"], j - 1)

\* Delay::by(time, id, channel): a new thread that sleeps `time`
Delay_by(tm, t, time, id) ==
    IF t = 0 THEN tm
    ELSE [tm EXCEPT ![t] = [stage |-> "sleep", id |-> id, dur |-> time,
                            ign |-> "no", drp |-> FALSE]]

\* the thread of slot t has ended and its event (if any) is consumed: the slot
\* is free again
Reap(tm, t) == [tm EXCEPT ![t] = FreeTimer]

\* Delay::ignore on a handle h: the signal is taken and () is sent to the
\* thread. A thread still asleep finds it with rx.try_recv() when it wakes,
\* sends nothing and ends: nothing of it is seen again, and its slot is freed
\* here. A thread past its try_recv is only marked.
Delay_ignore(tm, h) ==
    IF h <= 0 THEN tm
    ELSE IF tm[h].stage = "sleep" THEN Reap(tm, h)
    ELSE [tm EXCEPT ![h].ign = "late"]

\* a Delay handle h goes out of scope (Delay has no Drop impl: the Sender of
\* the signal channel is dropped and nothing is sent)
Delay_drop(tm, h) ==
    IF h > 0 /\ tm[h].stage = "sleep" THEN [tm EXCEPT ![h].drp = TRUE] ELSE tm

\* a handle that still holds the Sender of an ended thread holds a dead one
Orphan(maps, t) ==
    [i \in 1 .. Len(maps) |->
        IF maps[i].delay = t THEN [maps[i] EXCEPT !.delay = DeadSignal] ELSE maps[i]]

(* ------------------------------ records -------------------------------- *)
\* RequestPacket::bytes of a record's request: the fields that tell datagrams apart
bytes(m) == [op |-> m.op, life |-> m.life, nonce |-> m.nonce, proto |-> m.proto,
             iport |-> m.iport, eport |-> m.eport]

\* the bytes a re-send gives to socket.send: the cached buffer, or a fresh serialization
resend_bytes(m) == IF m.buf # <<>> THEN m.buf[1] ELSE bytes(m)

\* a nonce that is random in all its bytes
generate_nonce_random(idx, r) == <<r, r>>

\* Client::generate_nonce(id): first byte the index, the rest random
generate_nonce(idx, r) == <<idx % 256, r>>

\* the last Dropped record, or 0 for None
next_index_last(maps) ==
    IF \E i \in 1 .. Len(maps) : maps[i].st = "Dropped"
    THEN CHOOSE i \in 1 .. Len(maps) :
            /\ maps[i].st = "Dropped"
            /\ \A j \in (i + 1) .. Len(maps) : maps[j].st # "Dropped"
    ELSE 0

\* Client::next_index: the first Dropped record, or 0 for None
next_index(maps) ==
    IF \E i \in 1 .. Len(maps) : maps[i].st = "Dropped"
    THEN CHOOSE i \in 1 .. Len(maps) :
            /\ maps[i].st = "Dropped"
            /\ \A j \in 1 .. (i - 1) : maps[j].st # "Dropped"
    ELSE 0

\* MappingState::set_state (since: see Elapsed)
set_state(m, st, n, ul, err) ==
    [m EXCEPT !.st = st, !.n = n, !.ul = ul, !.err = err,
              !.since = IF st \in {"Running", "Updating"} THEN m.since ELSE None]

(* --------------------- the end of the service thread ------------------- *)
\* Client::handle_errors leaves its loop (or the thread panics): the Receiver
\* of the event channel is dropped with the events still in it
\* and the Client with its table: the Delay handles and the buffers are
\* dropped (the states live on in the handles' Arc<AtomicState>); a thread
\* still running finds the channel closed and its send is discarded
EndTimers(tm) == [t \in TimerIds |-> FreeTimer]
EndMaps(maps) ==
    [i \in 1 .. Len(maps) |-> [maps[i] EXCEPT !.delay = NoSignal, !.buf = <<>>]]

\* what a handler leaves behind: the table, the timers, the stored epoch, the
\* datagrams sent, the slots armed, whether it ran to its end, the Error
\* that run returns when it did not (the `?` of the handlers are all on a
\* socket.send, whose io::Error becomes Error::Socket), and the
\* Alert::Assigned it has sent to the record's handle
Outcome(maps, tm, ep, sent, armed, ok) ==
    [maps |-> maps, tm |-> tm, ep |-> ep, sent |-> sent, armed |-> armed, ok |-> ok,
     err |-> IF ok THEN "" ELSE "Socket", alert |-> <<>>]

\* one iteration of the loop of Client::run, as seen from Client::handle_errors
Commit(o, q, l) ==
    /\ 0 \notin {o.armed[j] : j \in 1 .. Len(o.armed)}
    /\ alive' = o.ok
    /\ mappings' = IF o.ok THEN o.maps ELSE EndMaps(o.maps)
    /\ timers' = IF o.ok THEN o.tm ELSE EndTimers(o.tm)
    /\ queue' = IF o.ok THEN q ELSE <<>>
    /\ epoch' = o.ep
    /\ last' = [l EXCEPT !.sent = o.sent, !.armed = o.armed, !.ok = o.ok, !.fwd = o.err,
                        !.alert = o.alert]

(* ------------------- Event::InboundMap / OutboundMap -------------------- *)
NewRecord(op, kind, rep, lifetime, idx, r) ==
    [st |-> "Starting", n |-> 0, ul |-> 0, err |-> 0,
     kind |-> kind, rep |-> rep, op |-> op,
     nonce |-> generate_nonce(idx, r), proto |-> Tcp, iport |-> Port, eport |-> 0,
     life |-> lifetime, buf |-> <<>>, delay |-> NoSignal, handle |-> TRUE,
     since |-> None]

request_map(maps, tm, ep, op, kind, rep, lifetime, r, k, ok) ==
    LET opt_idx == next_index(maps)
        idx == IF opt_idx # 0 THEN opt_idx ELSE Len(maps) + 1
        req == NewRecord(op, kind, rep, lifetime, idx, r)
        buf == bytes(req)
        tm0 == IF opt_idx # 0 THEN Delay_drop(tm, maps[idx].delay) ELSE tm
        t == NthFree(tm0, 1)
        m == [req EXCEPT !.buf = <<buf>>, !.delay = t]
    IN  IF ~ok
        THEN Outcome(maps, tm, ep, <<>>, <<>>, FALSE)
        ELSE Outcome(IF opt_idx # 0 THEN [maps EXCEPT ![idx] = m] ELSE Append(maps, m),
                     Delay_by(tm0, t, generate_irt(k), idx), ep, <<buf>>, <<t>>, TRUE)

\* (cap: the records the user asks for)
RequestMap(cap, op, kind, rep, lifetime, r, k, ok) ==
    /\ alive
    /\ next_index(mappings) # 0 \/ Len(mappings) < cap
    /\ kind = "Repeat" \/ rep = 0
    /\ Commit(request_map(mappings, timers, epoch, op, kind, rep, lifetime, r, k, ok), queue,
              [NoStep EXCEPT !.ev = "Request", !.op = op, !.arg = lifetime,
                  !.id = IF next_index(mappings) # 0 THEN next_index(mappings)
                         ELSE Len(mappings) + 1])

(* --------------------- Event::Drop / Revoke / Renew --------------------- *)
\* a release that re-sends what the record has cached, as the retransmissions do
release_cached(maps, tm, ep, id, st, ok) ==
    LET m1 == [maps[id] EXCEPT !.life = 0, !.buf = <<>>, !.delay = NoSignal]
        tm1 == Delay_ignore(tm, maps[id].delay)
    IN  IF ~ok
        THEN Outcome([maps EXCEPT ![id] = m1], tm1, ep, <<>>, <<>>, FALSE)
        ELSE Outcome([maps EXCEPT ![id] = set_state(m1, st, 0, 0, 0)], tm1, ep,
                     <<resend_bytes(maps[id])>>, <<>>, TRUE)

\* the common part of Drop and Revoke: lifetime 0, no buffer, delay ignored,
\* one datagram, then the state
release(maps, tm, ep, id, st, ok) ==
    LET m1 == [maps[id] EXCEPT !.life = 0, !.buf = <<>>, !.delay = NoSignal]
        tm1 == Delay_ignore(tm, maps[id].delay)
    IN  IF ~ok
        THEN Outcome([maps EXCEPT ![id] = m1], tm1, ep, <<>>, <<>>, FALSE)
        ELSE Outcome([maps EXCEPT ![id] = set_state(m1, st, 0, 0, 0)], tm1, ep,
                     <<bytes(m1)>>, <<>>, TRUE)

Drop(id, ok) ==
    /\ alive
    /\ id \in 1 .. Len(mappings)
    /\ mappings[id].handle
    /\ LET o == release(mappings, timers, epoch, id, "Dropped", ok)
       IN  Commit([o EXCEPT !.maps[id].handle = FALSE], queue,
                  [NoStep EXCEPT !.ev = "Drop", !.id = id])

Revoke(id, ok) ==
    /\ alive
    /\ id \in 1 .. Len(mappings)
    /\ mappings[id].handle
    /\ Commit(release(mappings, timers, epoch, id, "Revoked", ok), queue,
              [NoStep EXCEPT !.ev = "Revoke", !.id = id])

\* a renewal that re-sends what the record has cached, as the retransmissions do
renew_cached(maps, tm, ep, id, lifetime, k, ok) ==
    LET m1 == [maps[id] EXCEPT !.life = lifetime, !.delay = NoSignal]
        tm1 == Delay_ignore(tm, maps[id].delay)
        buf == resend_bytes(maps[id])
        t == NthFree(tm1, 1)
        m2 == [set_state(m1, "Starting", 0, 0, 0) EXCEPT !.buf = <<buf>>, !.delay = t]
    IN  IF ~ok
        THEN Outcome([maps EXCEPT ![id] = m1], tm1, ep, <<>>, <<>>, FALSE)
        ELSE Outcome([maps EXCEPT ![id] = m2], Delay_by(tm1, t, generate_irt(k), id), ep,
                     <<buf>>, <<t>>, TRUE)

renew(maps, tm, ep, id, lifetime, k, ok) ==
    LET m1 == [maps[id] EXCEPT !.life = lifetime, !.delay = NoSignal]
        tm1 == Delay_ignore(tm, maps[id].delay)
        buf == bytes(m1)
        t == NthFree(tm1, 1)
        m2 == [set_state(m1, "Starting", 0, 0, 0) EXCEPT !.buf = <<buf>>, !.delay = t]
    IN  IF ~ok
        THEN Outcome([maps EXCEPT ![id] = m1], tm1, ep, <<>>, <<>>, FALSE)
        ELSE Outcome([maps EXCEPT ![id] = m2], Delay_by(tm1, t, generate_irt(k), id), ep,
                     <<buf>>, <<t>>, TRUE)

Renew(id, lifetime, k, ok) ==
    /\ alive
    /\ id \in 1 .. Len(mappings)
    /\ mappings[id].handle
    /\ Commit(renew(mappings, timers, epoch, id, lifetime, k, ok), queue,
              [NoStep EXCEPT !.ev = "Renew", !.id = id, !.arg = lifetime])

(* ----------------------------- Event::Delay ---------------------------- *)
\* Client::update_mapping
update_mapping(maps, tm, ep, id, times, k, ok) ==
    LET m == maps[id]
        delay == jitter_lifetime(m.life, times, k)
        buf == resend_bytes(m)
        tm0 == Delay_drop(tm, m.delay)
        t == NthFree(tm0, 1)
        m2 == [set_state(m, "Updating", times, m.life, 0) EXCEPT !.buf = <<buf>>, !.delay = t]
    IN  IF jitter_panics(times)
        THEN [Outcome(maps, tm, ep, <<>>, <<>>, FALSE) EXCEPT !.err = ""]
        ELSE IF delay = None
        THEN Outcome([maps EXCEPT ![id] = set_state(m, "Expired", 0, 0, 0)], tm, ep,
                     <<>>, <<>>, TRUE)
        ELSE IF ~ok
        THEN Outcome(maps, tm, ep, <<>>, <<>>, FALSE)
        ELSE Outcome([maps EXCEPT ![id] = m2], Delay_by(tm0, t, delay, id), ep,
                     <<buf>>, <<t>>, TRUE)

\* a Starting arm with a retransmission cap of one (MRC = 1): the record
\* expires at its first timer
delay_starting_capped(maps, tm, ep, id, waited, k, ok) ==
    Outcome([maps EXCEPT ![id] = set_state(maps[id], "Expired", 0, 0, 0)], tm, ep,
            <<>>, <<>>, TRUE)

\* the arm State::Starting(n) of the match on the record's state
delay_starting(maps, tm, ep, id, waited, k, ok) ==
    LET m == maps[id]
        m1 == set_state(m, "Starting", m.n + 1, 0, 0)
        buf == resend_bytes(m)
        tm0 == Delay_drop(tm, m.delay)
        t == NthFree(tm0, 1)
    IN  IF ~ok
        THEN Outcome([maps EXCEPT ![id] = m1], tm, ep, <<>>, <<>>, FALSE)
        ELSE Outcome([maps EXCEPT ![id] = [m1 EXCEPT !.buf = <<buf>>, !.delay = t]],
                     Delay_by(tm0, t, generate_rt(k, waited), id), ep, <<buf>>, <<t>>, TRUE)

\* a Running arm that renews a Repeat(n) without counting the renewal
delay_running_uncounted(maps, tm, ep, id, k, ok) ==
    LET m == maps[id]
    IN  IF m.kind = "Once" \/ (m.kind = "Repeat" /\ m.rep = 0)
        THEN Outcome([maps EXCEPT ![id] = set_state(m, "Expired", 0, 0, 0)], tm, ep,
                     <<>>, <<>>, TRUE)
        ELSE update_mapping(maps, tm, ep, id, 0, k, ok)

\* the arm State::Running
delay_running(maps, tm, ep, id, k, ok) ==
    LET m == maps[id]
    IN  IF m.kind = "Once" \/ (m.kind = "Repeat" /\ m.rep = 0)
        THEN Outcome([maps EXCEPT ![id] = set_state(m, "Expired", 0, 0, 0)], tm, ep,
                     <<>>, <<>>, TRUE)
        ELSE IF m.kind = "Repeat"
        THEN update_mapping([maps EXCEPT ![id].rep = m.rep - 1], tm, ep, id, 0, k, ok)
        ELSE update_mapping(maps, tm, ep, id, 0, k, ok)

\* a Delay arm whose last case sets the record Expired
delay_event_expires(maps, tm, ep, id, waited, k, ok) ==
    CASE maps[id].st = "Starting" -> delay_starting(maps, tm, ep, id, waited, k, ok)
      [] maps[id].st = "Running" -> delay_running(maps, tm, ep, id, k, ok)
      [] maps[id].st = "Updating" -> update_mapping(maps, tm, ep, id, maps[id].n + 1, k, ok)
      [] OTHER -> Outcome([maps EXCEPT ![id] = set_state(maps[id], "Expired", 0, 0, 0)],
                          tm, ep, <<>>, <<>>, TRUE)

\* Event::Delay(id, waited)
delay_event(maps, tm, ep, id, waited, k, ok) ==
    CASE maps[id].st = "Starting" -> delay_starting(maps, tm, ep, id, waited, k, ok)
      [] maps[id].st = "Running" -> delay_running(maps, tm, ep, id, k, ok)
      [] maps[id].st = "Updating" -> update_mapping(maps, tm, ep, id, maps[id].n + 1, k, ok)
      [] OTHER -> Outcome(maps, tm, ep, <<>>, <<>>, TRUE)

\* whether the handler of this Delay event reaches a socket.send
delay_sends(m, k) ==
    \/ m.st = "Starting"
    \/ /\ m.st = "Running"
       /\ m.kind = "KeepAlive" \/ (m.kind = "Repeat" /\ m.rep > 0)
       /\ jitter_lifetime(m.life, 0, k) # None
    \/ /\ m.st = "Updating"
       /\ ~jitter_panics(m.n + 1)
       /\ jitter_lifetime(m.life, m.n + 1, k) # None

\* history: the time the record's chain of timers has slept since the last
\* Success response, in ms: the sum of the `waited` of the Delay events handled
\* since then, each the event of the timer the record held (None otherwise)
Elapsed(o, m, e) ==
    IF o.ok /\ o.maps[e.id].st = "Updating"
    THEN [o EXCEPT !.maps[e.id].since =
                IF m.since # None /\ m.delay = e.tmr THEN m.since + e.waited ELSE None]
    ELSE o

DelayFired(k, ok) ==
    /\ alive
    /\ queue # <<>>
    /\ LET e == Head(queue)
           tm0 == Reap(timers, e.tmr)
           maps0 == Orphan(mappings, e.tmr)
       IN  /\ ok \/ delay_sends(mappings[e.id], k)
           /\ Commit(Elapsed(delay_event(maps0, tm0, epoch, e.id, e.waited, k, ok),
                             mappings[e.id], e), Tail(queue),
                     [NoStep EXCEPT !.ev = "Delay", !.id = e.id, !.arg = e.waited,
                                    !.ign = (timers[e.tmr].ign # "no"), !.drp = timers[e.tmr].drp,
                                    !.cur = (mappings[e.id].delay = e.tmr)])

(* --------------------------- the timer threads -------------------------- *)
\* thread::sleep(time) ends and rx.try_recv() is evaluated: Ok(()) when
\* ignore() has sent the signal, Err (Empty or Disconnected) otherwise
\* (the model's horizon: no sleep longer than `horizon` seconds ends, and none
\* of a record whose Starting or Updating counter has reached capS or capU)
TimerWakeWithin(t, capS, capU, horizon) ==
    /\ timers[t].stage = "sleep"
    /\ timers[t].dur <= horizon * 1000
    /\ mappings[timers[t].id].st = "Starting" => mappings[timers[t].id].n < capS
    /\ mappings[timers[t].id].st = "Updating" => mappings[timers[t].id].n < capU
    /\ alive
    /\ timers' = [timers EXCEPT ![t].stage = "checked"]
    /\ last' = NoStep
    /\ UNCHANGED <<mappings, queue, epoch, alive>>

TimerWake(t, capS, capU) == TimerWakeWithin(t, capS, capU, MaxWait)

\* a thread that sends its event and does not end
TimerSendAgain(t) ==
    /\ timers[t].stage = "checked"
    /\ alive
    /\ queue' = Append(queue, [id |-> timers[t].id, waited |-> timers[t].dur, tmr |-> t])
    /\ last' = NoStep
    /\ UNCHANGED <<mappings, timers, epoch, alive>>

\* channel.send(Event::Delay(id, time)).ok()
TimerSend(t) ==
    /\ timers[t].stage = "checked"
    /\ alive
    /\ queue' = Append(queue, [id |-> timers[t].id, waited |-> timers[t].dur, tmr |-> t])
    /\ timers' = [timers EXCEPT ![t].stage = "sent"]
    /\ last' = NoStep
    /\ UNCHANGED <<mappings, epoch, alive>>

(* ------------------------------ recovery ------------------------------ *)
RECURSIVE IgnoreAll(_, _, _)
IgnoreAll(tm, maps, i) ==
    IF i > Len(maps) THEN tm ELSE IgnoreAll(Delay_ignore(tm, maps[i].delay), maps, i + 1)

\* Client::server_lost_state; ks[i] is the rng draw of record i's IRT, and
\* failAt the index whose socket.send fails (0: none does)
server_lost_state(maps, tm, ep, ks, failAt) ==
    LET N == Len(maps)
        tm1 == IgnoreAll(tm, maps, 1)
        done == IF failAt = 0 THEN N ELSE failAt - 1
        sent == [i \in 1 .. done |-> resend_bytes(maps[i])]
        maps2 == [i \in 1 .. N |->
                    IF i <= done
                    THEN [maps[i] EXCEPT !.delay = NoSignal, !.buf = <<resend_bytes(maps[i])>>]
                    ELSE [maps[i] EXCEPT !.delay = NoSignal]]
        slot(i) == NthFree(tm1, i)
        maps3 == [i \in 1 .. N |->
                    [set_state(maps2[i], "Starting", 0, 0, 0) EXCEPT !.delay = slot(i)]]
        tm3 == [t \in TimerIds |->
                    IF \E i \in 1 .. N : slot(i) = t
                    THEN LET i == CHOOSE j \in 1 .. N : slot(j) = t
                         IN  [stage |-> "sleep", id |-> i, dur |-> generate_irt(ks[i]),
                              ign |-> "no", drp |-> FALSE]
                    ELSE tm1[t]]
    IN  IF failAt # 0
        THEN Outcome(maps2, tm1, ep, sent, <<>>, FALSE)
        ELSE Outcome(maps3, tm3, ep, sent, [i \in 1 .. N |-> slot(i)], TRUE)

(* ------------------------------- epoch --------------------------------- *)
sat_sub(a, b) == IF a > b THEN a - b ELSE 0

\* a validation that only compares the two clocks' paces
epoch_invalid_paces(ep, curr_epoch) ==
    /\ ep.set
    /\ LET client_delta == ep.age
           server_delta == sat_sub(curr_epoch, ep.e)
       IN  \/ client_delta + 2 < server_delta - server_delta \div 16
           \/ server_delta + 2 < client_delta - client_delta \div 16

\* Epoch::validate_epoch(&self, previous, elapsed) of core/epoch.rs
Epoch_validate_epoch(self, previous, elapsed) ==
    IF self < sat_sub(previous, 1)
    THEN FALSE
    ELSE LET client_delta == elapsed
             server_delta == sat_sub(self, previous)
         IN  ~(\/ client_delta + 2 < server_delta - server_delta \div 16
               \/ server_delta + 2 < client_delta - client_delta \div 16)

\* a validation that allows no backwards slip
epoch_invalid_strict(ep, curr_epoch) ==
    /\ ep.set
    /\ \/ curr_epoch < ep.e
       \/ LET client_delta == ep.age
              server_delta == sat_sub(curr_epoch, ep.e)
          IN  \/ client_delta + 2 < server_delta - server_delta \div 16
              \/ server_delta + 2 < client_delta - client_delta \div 16

\* the condition under which Client::validate_epoch calls server_lost_state
epoch_invalid(ep, curr_epoch) ==
    /\ ep.set
    /\ \/ curr_epoch < sat_sub(ep.e, 1)
       \/ LET client_delta == ep.age
              server_delta == sat_sub(curr_epoch, ep.e)
          IN  \/ client_delta + 2 < server_delta - server_delta \div 16
              \/ server_delta + 2 < client_delta - client_delta \div 16

\* self.epoch = Some((curr_epoch, now))
epoch_stored(curr_epoch) == [set |-> TRUE, e |-> curr_epoch, age |-> 0]

(* ------------------ Event::MapResponse / PeerResponse ------------------- *)
\* the closure of find_map: does record m own the response payload p
matches(m, op, p) ==
    /\ m.op = op
    /\ m.nonce = p.nonce
    /\ m.iport = p.iport
    /\ m.proto = p.proto

\* .find_map(...): the first matching record, or 0
find_match(maps, op, p) ==
    IF \E i \in 1 .. Len(maps) : matches(maps[i], op, p)
    THEN CHOOSE i \in 1 .. Len(maps) :
            /\ matches(maps[i], op, p)
            /\ \A j \in 1 .. (i - 1) : ~matches(maps[j], op, p)
    ELSE 0

\* the wait of the Running timer, in ms
running_wait(m, lifetime, k) ==
    IF m.kind = "Once" \/ (m.kind = "Repeat" /\ m.rep = 0)
    THEN lifetime * 1000
    ELSE IF jitter_lifetime(lifetime, 0, k) = None THEN 0
         ELSE jitter_lifetime(lifetime, 0, k)

\* a handler that leaves the record's timer running on an error response
matched_keeps_timer(maps, tm, ep, id, result, lifetime, k) ==
    LET m == maps[id]
        tm1 == Delay_ignore(tm, m.delay)
        m1 == [m EXCEPT !.delay = NoSignal]
        m2 == IF m1.life # lifetime THEN [m1 EXCEPT !.life = lifetime, !.buf = <<>>] ELSE m1
        t == NthFree(tm1, 1)
    IN  IF result = Success
        THEN Outcome([maps EXCEPT ![id] = [set_state(m2, "Running", 0, 0, 0) EXCEPT
                                              !.delay = t, !.since = 0]],
                     Delay_by(tm1, t, running_wait(m2, lifetime, k), id), ep,
                     <<>>, <<t>>, TRUE)
        ELSE Outcome([maps EXCEPT ![id] = set_state(m, "Error", 0, 0, result)], tm, ep,
                     <<>>, <<>>, TRUE)

\* a handler that keeps the cached bytes when the granted lifetime differs
matched_keeps_buffer(maps, tm, ep, id, result, lifetime, k) ==
    LET m == maps[id]
        tm1 == Delay_ignore(tm, m.delay)
        m1 == [m EXCEPT !.delay = NoSignal]
        m2 == [m1 EXCEPT !.life = lifetime]
        t == NthFree(tm1, 1)
    IN  IF result = Success
        THEN Outcome([maps EXCEPT ![id] = [set_state(m2, "Running", 0, 0, 0) EXCEPT
                                              !.delay = t, !.since = 0]],
                     Delay_by(tm1, t, running_wait(m2, lifetime, k), id), ep,
                     <<>>, <<t>>, TRUE)
        ELSE Outcome([maps EXCEPT ![id] = set_state(m1, "Error", 0, 0, result)], tm1, ep,
                     <<>>, <<>>, TRUE)

\* the body run for the record `id` a response was matched to
matched(maps, tm, ep, id, result, lifetime, k) ==
    LET m == maps[id]
        tm1 == Delay_ignore(tm, m.delay)
        m1 == [m EXCEPT !.delay = NoSignal]
        m2 == IF m1.life # lifetime THEN [m1 EXCEPT !.life = lifetime, !.buf = <<>>] ELSE m1
        t == NthFree(tm1, 1)
    IN  IF result = Success
        THEN Outcome([maps EXCEPT ![id] = [set_state(m2, "Running", 0, 0, 0) EXCEPT
                                              !.delay = t, !.since = 0]],
                     Delay_by(tm1, t, running_wait(m2, lifetime, k), id), ep,
                     <<>>, <<t>>, TRUE)
        ELSE Outcome([maps EXCEPT ![id] = set_state(m1, "Error", 0, 0, result)], tm1, ep,
                     <<>>, <<>>, TRUE)

\* a handler that takes the epoch of the response it refuses as the new one
response_stores(maps, tm, ep, op, result, curr_epoch, lifetime, p, k, ks, failAt) ==
    IF epoch_invalid(ep, curr_epoch)
    THEN server_lost_state(maps, tm, epoch_stored(curr_epoch), ks, failAt)
    ELSE IF find_match(maps, op, p) = 0
    THEN Outcome(maps, tm, epoch_stored(curr_epoch), <<>>, <<>>, TRUE)
    ELSE matched(maps, tm, epoch_stored(curr_epoch), find_match(maps, op, p),
                 result, lifetime, k)

\* a handler that runs the recovery and then still matches the response
response_unchecked(maps, tm, ep, op, result, curr_epoch, lifetime, p, k, ks, failAt) ==
    LET o == server_lost_state(maps, tm, ep, ks, failAt)
        id == find_match(maps, op, p)
    IN  IF ~epoch_invalid(ep, curr_epoch)
        THEN IF id = 0 THEN Outcome(maps, tm, epoch_stored(curr_epoch), <<>>, <<>>, TRUE)
             ELSE matched(maps, tm, epoch_stored(curr_epoch), id, result, lifetime, k)
        ELSE IF ~o.ok \/ id = 0 THEN o
        ELSE [matched(o.maps, o.tm, o.ep, id, result, lifetime, k) EXCEPT
                    !.sent = o.sent, !.armed = o.armed]

\* mapping.alert(Alert::Assigned(payload.external_address, payload.external_port,
\* lifetime)), in the Success arm of Event::MapResponse; the Success arm of
\* Event::PeerResponse has no such call (the address goes with the port)
assigned(op, result, lifetime, p) ==
    IF op = "Map" /\ result = Success
    THEN <<[eport |-> p.eport, life |-> lifetime]>>
    ELSE <<>>

response(maps, tm, ep, op, result, curr_epoch, lifetime, p, k, ks, failAt) ==
    IF epoch_invalid(ep, curr_epoch)
    THEN server_lost_state(maps, tm, ep, ks, failAt)
    ELSE IF find_match(maps, op, p) = 0
    THEN Outcome(maps, tm, epoch_stored(curr_epoch), <<>>, <<>>, TRUE)
    ELSE [matched(maps, tm, epoch_stored(curr_epoch), find_match(maps, op, p),
                  result, lifetime, k) EXCEPT !.alert = assigned(op, result, lifetime, p)]

Payloads ==
    [nonce : {generate_nonce(i, 0) : i \in 1 .. MaxMaps}, iport : RespPorts,
     proto : {Tcp}, eport : {AssignedPort}]

\* a response whose epoch validates
Response(op, result, curr_epoch, lifetime, p, k) ==
    /\ alive
    /\ ~epoch_invalid(epoch, curr_epoch)
    /\ k = 0 \/ (find_match(mappings, op, p) # 0 /\ result = Success)
    /\ Commit(response(mappings, timers, epoch, op, result, curr_epoch, lifetime, p,
                       k, <<>>, 0), queue,
              [NoStep EXCEPT !.ev = "Response", !.op = op, !.res = result, !.ep = curr_epoch,
                             !.back = (epoch.set /\ curr_epoch < epoch.e),
                             !.arg = lifetime, !.id = p.nonce[1],
                             !.hit = find_match(mappings, op, p)])

\* a response whose epoch does not
StaleResponse(op, result, curr_epoch, lifetime, p, ks, failAt) ==
    /\ alive
    /\ epoch_invalid(epoch, curr_epoch)
    /\ Commit(response(mappings, timers, epoch, op, result, curr_epoch, lifetime, p,
                       0, ks, failAt), queue,
              [NoStep EXCEPT !.ev = "Response", !.op = op, !.res = result, !.ep = curr_epoch,
                             !.back = (epoch.set /\ curr_epoch < epoch.e),
                             !.arg = lifetime, !.id = p.nonce[1], !.valid = FALSE,
                             !.hit = find_match(mappings, op, p)])

(* ----------------------- Event::AnnounceResponse ----------------------- *)
\* a handler that recovers only on an announcement whose epoch validates
announce_if_valid(maps, tm, ep, result, curr_epoch, ks, failAt) ==
    IF result # Success \/ epoch_invalid(ep, curr_epoch)
    THEN Outcome(maps, tm, ep, <<>>, <<>>, TRUE)
    ELSE server_lost_state(maps, tm, epoch_stored(curr_epoch), ks, failAt)

announce(maps, tm, ep, result, curr_epoch, ks, failAt) ==
    IF result # Success
    THEN Outcome(maps, tm, ep, <<>>, <<>>, TRUE)
    ELSE IF epoch_invalid(ep, curr_epoch)
    THEN server_lost_state(maps, tm, ep, ks, failAt)
    ELSE server_lost_state(maps, tm, epoch_stored(curr_epoch), ks, failAt)

Announce(result, curr_epoch, ks, failAt) ==
    /\ alive
    /\ result # Success => (failAt = 0 /\ ks = [i \in 1 .. Len(mappings) |-> 0])
    /\ Commit(announce(mappings, timers, epoch, result, curr_epoch, ks, failAt), queue,
              [NoStep EXCEPT !.ev = "Announce", !.res = result, !.ep = curr_epoch,
                             !.back = (epoch.set /\ curr_epoch < epoch.e),
                             !.valid = ~epoch_invalid(epoch, curr_epoch)])

(* ------------------- Event::Shutdown / ListenError --------------------- *)
\* run returns Ok(()): handle_errors leaves its loop and forwards nothing
Shutdown ==
    /\ alive
    /\ Commit([Outcome(mappings, timers, epoch, <<>>, <<>>, FALSE) EXCEPT !.err = ""], queue,
              [NoStep EXCEPT !.ev = "Shutdown"])

\* a decode error that ends the service as a socket error does
ListenErrorEnds ==
    /\ alive
    /\ Commit([Outcome(mappings, timers, epoch, <<>>, <<>>, FALSE) EXCEPT !.err = "Parsing"],
              queue, [NoStep EXCEPT !.ev = "ListenError"])

\* Event::ListenError(error), the ParsingError of a listener: run returns
\* Err(Error::Parsing), handle_errors forwards it and calls run again
ListenError ==
    /\ alive
    /\ Commit([Outcome(mappings, timers, epoch, <<>>, <<>>, TRUE) EXCEPT !.err = "Parsing"],
              queue, [NoStep EXCEPT !.ev = "ListenError"])

(* ------------------------------- time ---------------------------------- *)
\* a second passes on the client's clock
Tick ==
    /\ epoch.set
    /\ epoch.age < MaxAge
    /\ epoch' = [epoch EXCEPT !.age = epoch.age + 1]
    /\ last' = NoStep
    /\ UNCHANGED <<mappings, timers, queue, alive>>

Init ==
    /\ mappings = <<>>
    /\ timers = [t \in TimerIds |-> FreeTimer]
    /\ queue = <<>>
    /\ epoch = NoEpoch
    /\ alive = TRUE
    /\ last = [NoStep EXCEPT !.ev = "init"]

(* ------------------- the packets and their functions -------------------- *)
\* The functions of the packet types are applied to inputs that the initial
\* state draws: `last` holds the input (inp) and, after the application, its
\* result (out); the service has just been constructed and does not run.
Input(x) == [NoStep EXCEPT !.ev = "input", !.inp = <<x>>]

InitWith(inputs) ==
    /\ mappings = <<>>
    /\ timers = [t \in TimerIds |-> FreeTimer]
    /\ queue = <<>>
    /\ epoch = NoEpoch
    /\ alive = TRUE
    /\ last \in {Input(x) : x \in inputs}

\* a function, known as fn, is applied to the input drawn and gives out
Apply(fn, out) ==
    /\ last.ev = "input"
    /\ last' = [last EXCEPT !.ev = fn, !.out = <<out>>]
    /\ UNCHANGED <<mappings, timers, queue, epoch, alive>>

\* a comparison that takes protocol 0 as a wildcard on the side of the request
ResponsePacket_eq_anyreq(res, req) ==
    /\ res.opcode = req.opcode
    /\ res.version = req.version
    /\ CASE res.kind = "Announce" /\ req.kind = "Announce" -> TRUE
         [] res.kind = "Map" /\ req.kind = "Map" ->
                /\ res.protocol = req.protocol \/ req.protocol = Hopopt
                /\ res.internal_port = req.internal_port
                /\ res.nonce = req.nonce
         [] res.kind = "Peer" /\ req.kind = "Peer" ->
                /\ res.protocol = req.protocol
                /\ res.external_port = req.external_port \/ req.external_port = 0
                /\ res.internal_port = req.internal_port
                /\ res.nonce = req.nonce
                /\ res.remote_addr = req.remote_addr
                /\ res.remote_port = req.remote_port
         [] OTHER -> FALSE

\* impl PartialEq<RequestPacket> for ResponsePacket (kind: the variant of the
\* payload; opcode, version: the header's)
ResponsePacket_eq(res, req) ==
    /\ res.opcode = req.opcode
    /\ res.version = req.version
    /\ CASE res.kind = "Announce" /\ req.kind = "Announce" -> TRUE
         [] res.kind = "Map" /\ req.kind = "Map" ->
                /\ res.protocol = req.protocol \/ res.protocol = Hopopt
                /\ res.internal_port = req.internal_port
                /\ res.nonce = req.nonce
         [] res.kind = "Peer" /\ req.kind = "Peer" ->
                /\ res.protocol = req.protocol
                /\ res.external_port = req.external_port \/ req.external_port = 0
                /\ res.internal_port = req.internal_port
                /\ res.nonce = req.nonce
                /\ res.remote_addr = req.remote_addr
                /\ res.remote_port = req.remote_port
         [] OTHER -> FALSE

\* impl PartialEq<ResponsePacket> for RequestPacket: other == self
RequestPacket_eq(req, res) == ResponsePacket_eq(res, req)

\* the packets compared: of the two versions, the three opcodes, with the
\* payload of their opcode
Versions == {1, 2}
Nonces == {generate_nonce(i, 0) : i \in 1 .. MaxMaps}
Protocols == {Hopopt, Tcp}
RemoteAddrs == {"a", "b"}

PacketsOf(eports) ==
    [opcode : {"Announce"}, kind : {"Announce"}, version : Versions, nonce : {<<>>},
     protocol : {Hopopt}, internal_port : {0}, external_port : {0},
     remote_addr : {""}, remote_port : {0}]
    \cup
    [opcode : {"Map"}, kind : {"Map"}, version : Versions, nonce : Nonces,
     protocol : Protocols, internal_port : RespPorts, external_port : {AssignedPort},
     remote_addr : {""}, remote_port : {0}]
    \cup
    [opcode : {"Peer"}, kind : {"Peer"}, version : Versions, nonce : Nonces,
     protocol : Protocols, internal_port : RespPorts, external_port : eports,
     remote_addr : RemoteAddrs, remote_port : RespPorts]

ResponsePackets == PacketsOf({AssignedPort, AssignedPort + 1})
RequestPackets == PacketsOf({0, AssignedPort})

ComparePackets ==
    Apply("eq", ResponsePacket_eq(last.inp[1].res, last.inp[1].req))
CompareReversed ==
    Apply("eq_rev", RequestPacket_eq(last.inp[1].req, last.inp[1].res))

NextPackets == ComparePackets \/ CompareReversed

SpecPackets ==
    InitWith([res : ResponsePackets, req : RequestPackets]) /\ [][NextPackets]_vars

(* ------------------------ the size of a request ------------------------- *)
\* a mapping as the user describes it (InboundMap, OutboundMap of map.rs): its
\* opcode, the number of its filters, prefer_failure, third_party
UserMaps ==
    [op : {"Map"}, filters : 0 .. MaxFilters, prefer_failure : BOOLEAN, third_party : BOOLEAN]
    \cup
    [op : {"Peer"}, filters : {0}, prefer_failure : {FALSE}, third_party : BOOLEAN]

\* RequestPacket::size: the header, the payload and every option with its header
RequestPacket_size(m) ==
    RequestHeader_SIZE
    + (IF m.op = "Map" THEN MapRequestPayload_SIZE ELSE PeerRequestPayload_SIZE)
    + m.filters * (OptionHeader_SIZE + FilterOptionPayload_SIZE)
    + (IF m.prefer_failure THEN OptionHeader_SIZE ELSE 0)
    + (IF m.third_party THEN OptionHeader_SIZE + ThirdPartyOptionPayload_SIZE ELSE 0)

Built(ok, size, err) == [ok |-> ok, size |-> size, err |-> err]

\* RequestPacket::check_size of types/packet.rs
check_size(m) ==
    IF RequestPacket_size(m) > MAX_PACKET_SIZE
    THEN Built(FALSE, RequestPacket_size(m), "PacketTooBig")
    ELSE Built(TRUE, RequestPacket_size(m), "")

\* RequestPacket::map and ::peer of types/packet.rs (version 2, the options of
\* the opcode): they end with check_size
packet_build(m) == check_size(m)

\* RequestPacket::map and ::peer of types/request.rs and types/mod.rs, the
\* RequestPacket that client.rs imports from crate::types (version 2, the
\* options of the opcode): Ok(Self { header, payload, options })
request_build(m) == Built(TRUE, RequestPacket_size(m), "")

\* Event::InboundMap, Event::OutboundMap: the request is built from the user's
\* mapping with every filter pushed as an option, unwrapped, and its bytes()
\* are given to socket.send: the length of the datagram
inbound_send(m) == request_build(m)

BuildPacket == Apply("packet_build", packet_build(last.inp[1]))
BuildRequest == Apply("request_build", request_build(last.inp[1]))
SendRequest == Apply("inbound_send", inbound_send(last.inp[1]))

NextSize == BuildPacket \/ BuildRequest \/ SendRequest

SpecSize == InitWith(UserMaps) /\ [][NextSize]_vars

(* -------------------------- the filter option -------------------------- *)
Ipv6_LENGTH == 128
MappedPrefix == 96

\* a filter as PacketOption::filter takes it: the prefix and the remote
\* address, which is an IpAddr::V4, an IpAddr::V6 of the form ::ffff:a.b.c.d,
\* or another IpAddr::V6
AddrKinds == {"v4", "v6mapped", "v6"}
Filters == [prefix : 0 .. Ipv6_LENGTH, addr : AddrKinds]

Mapped(f) == f.addr \in {"v4", "v6mapped"}

Parsed(ok, err, prefix, value) == [ok |-> ok, err |-> err, prefix |-> prefix, value |-> value]

\* FilterOptionPayload::bytes: the 20 bytes of the payload, of which the model
\* keeps the prefix (byte 1) and whether the bytes 4..15 are those of an
\* IPv4-mapped address (an IpAddr::V4 is written as to_ipv6_mapped())
FilterOptionPayload_bytes(f) ==
    [len |-> FilterOptionPayload_SIZE, prefix |-> f.prefix, mapped |-> Mapped(f)]

\* PacketOption::filter and the serialization of the option in
\* RequestPacket::bytes: neither returns a Result
filter_encode(f) == Parsed(TRUE, "", f.prefix, FilterOptionPayload_bytes(f))

\* TryFrom<&[u8]> for FilterOptionPayloadSlice
filter_try_from(slice) ==
    IF slice.len < FilterOptionPayload_SIZE
    THEN Parsed(FALSE, "InvalidSliceLength", FilterOptionPayload_SIZE, slice)
    ELSE IF slice.prefix < MappedPrefix /\ slice.mapped
    THEN Parsed(FALSE, "InvalidPrefix", slice.prefix, slice)
    ELSE Parsed(TRUE, "", slice.prefix, slice)

\* the decoding of what the encoding has written
filter_decode(f) == filter_try_from(FilterOptionPayload_bytes(f))

\* the decoding of its first 19 bytes
filter_decode_short(f) ==
    filter_try_from([FilterOptionPayload_bytes(f) EXCEPT !.len = FilterOptionPayload_SIZE - 1])

EncodeFilter == Apply("filter_encode", filter_encode(last.inp[1]))
DecodeFilter == Apply("filter_decode", filter_decode(last.inp[1]))
DecodeShortFilter == Apply("filter_decode_short", filter_decode_short(last.inp[1]))

NextFilter == EncodeFilter \/ DecodeFilter \/ DecodeShortFilter

SpecFilter == InitWith(Filters) /\ [][NextFilter]_vars

(* -------------------------- the response header ------------------------ *)
ResponseHeader_SIZE == 24
MinVersion == 2
LastResultCode == 13
LastOpCode == 2

\* the bytes given to the decoder: their number, and the bytes the decoder
\* reads: 0 (version), 1 (R bit and opcode), 3 (result code)
HeaderSlices ==
    [len : {ResponseHeader_SIZE - 1, ResponseHeader_SIZE, ResponseHeader_SIZE + 1},
     b0 : {0, 1, 2, 3, 255},
     b1 : {r * 128 + o : r \in {0, 1}, o \in {0, 1, 2, 3, 127}},
     b3 : 0 .. (LastResultCode + 1)]

\* slice[1] & 0b_1000_0000 and slice[1] & 0b_0111_1111
RBit(b) == (b \div 128) * 128
Low7(b) == b % 128

\* OpCode::try_from and ResultCode::try_from
OpCode_try_from(v) == v \in 0 .. LastOpCode
ResultCode_try_from(v) == v \in 0 .. LastResultCode

Decoded(ok, err) == [ok |-> ok, err |-> err]

\* TryFrom<&[u8]> for ResponseHeaderSlice
ResponseHeaderSlice_try_from(slice) ==
    IF slice.len < ResponseHeader_SIZE THEN Decoded(FALSE, "InvalidSliceLength")
    ELSE IF slice.b0 < MinVersion THEN Decoded(FALSE, "VersionNotSupported")
    ELSE IF RBit(slice.b1) = 0 THEN Decoded(FALSE, "NotAResponse")
    ELSE IF ~OpCode_try_from(Low7(slice.b1)) THEN Decoded(FALSE, "NotAnOpCode")
    ELSE IF ~ResultCode_try_from(slice.b3) THEN Decoded(FALSE, "NotAResultCode")
    ELSE Decoded(TRUE, "")

DecodeHeader == Apply("header_try_from", ResponseHeaderSlice_try_from(last.inp[1]))

\* ResponseHeaderSlice::version, opcode, result_code of an accepted slice
ReadHeader ==
    /\ last.ev = "header_try_from" /\ last.out[1].ok
    /\ last' = [last EXCEPT !.ev = "header_parse",
                    !.out = <<[version |-> last.inp[1].b0, opcode |-> Low7(last.inp[1].b1),
                               result |-> last.inp[1].b3]>>]
    /\ UNCHANGED <<mappings, timers, queue, epoch, alive>>

NextHeader == DecodeHeader \/ ReadHeader

SpecHeader == InitWith(HeaderSlices) /\ [][NextHeader]_vars

(* ------------------- the serialized form of a request ------------------- *)

Request_HEADER_SIZE == 24
Map_SIZE == 36
Peer_SIZE == 56

\* the byte of weight 256^k of v
RECURSIVE be_byte(_, _)
be_byte(v, k) == IF k = 0 THEN v % 256 ELSE be_byte(v \div 256, k - 1)

\* the n bytes of v, most significant first (addresses and nonces are written
\* as their bytes too)
to_be_bytes(v, n) == [i \in 1 .. n |-> be_byte(v, n - i)]

RECURSIVE from_be_bytes(_)
from_be_bytes(s) ==
    IF s = <<>> THEN 0 ELSE 256 * from_be_bytes(SubSeq(s, 1, Len(s) - 1)) + s[Len(s)]

Zeros(n) == [i \in 1 .. n |-> 0]

OpCodeOf(op) == CASE op = "Announce" -> 0 [] op = "Map" -> 1 [] op = "Peer" -> 2

max_options_size(payload_size) == MAX_PACKET_SIZE - Request_HEADER_SIZE - payload_size

\* one PREFER_FAILURE option, as Payload::with leaves it in raw_options
PreferFailureBytes == <<2, 0>> \o to_be_bytes(0, 2)

\* the requests given to the functions: the fields of the payload that the
\* opcode does not have are left at zero
Requests ==
    {r \in [version : {2}, lifetime : {0, 300, 65536}, address : {0, 257},
            op : {"Announce", "Map", "Peer"}, nonce : {0, 7}, protocol : {Hopopt, Tcp},
            internal_port : {0, 258}, remote_peer_port : {0, 1, 513},
            raw_options : {<<>>, PreferFailureBytes}] :
        /\ r.op = "Announce" =>
              r.nonce = 0 /\ r.protocol = Hopopt /\ r.internal_port = 0 /\ r.raw_options = <<>>
        /\ r.op = "Peer" <=> r.remote_peer_port # 0}

Map_serialize(r) ==
    to_be_bytes(r.nonce, 12) \o <<r.protocol>> \o Zeros(3) \o to_be_bytes(r.internal_port, 2)
        \o to_be_bytes(0, 2) \o to_be_bytes(0, 16)

Peer_serialize(r) ==
    Map_serialize(r) \o to_be_bytes(r.remote_peer_port, 2) \o Zeros(2) \o to_be_bytes(0, 16)

Payload_serialize(r) ==
    (CASE r.op = "Map" -> Map_serialize(r)
       [] r.op = "Peer" -> Peer_serialize(r)
       [] r.op = "Announce" -> <<>>) \o r.raw_options

Request_serialize(r) ==
    <<r.version, OpCodeOf(r.op) % 128>> \o Zeros(2) \o to_be_bytes(r.lifetime, 4)
        \o to_be_bytes(r.address, 16) \o Payload_serialize(r)

\* the result of a step of the deserializer: Ok with the bytes taken and the
\* bytes left, Err, or a panic of the slice operation
Taken(st, val, rest) == [st |-> st, val |-> val, rest |-> rest]

advance(data, by) ==
    IF Len(data) > by THEN Taken("Err", <<>>, data)
    ELSE IF by > Len(data) THEN Taken("Panic", <<>>, data)
    ELSE Taken("Ok", SubSeq(data, 1, by), SubSeq(data, by + 1, Len(data)))

advance_at_most(data, by) ==
    LET a == advance(data, Min(by, Len(data)))
    IN  IF a.st = "Ok" THEN a ELSE Taken("Panic", <<>>, data)

\* the fields of the given sizes, read one after the other with `?`
RECURSIVE deserialize_fields(_, _)
deserialize_fields(data, sizes) ==
    IF sizes = <<>> THEN Taken("Ok", <<>>, data)
    ELSE LET a == advance(data, Head(sizes))
         IN  IF a.st # "Ok" THEN Taken(a.st, <<>>, data)
             ELSE LET r == deserialize_fields(a.rest, Tail(sizes))
                  IN  Taken(r.st, <<a.val>> \o r.val, r.rest)

Deserialized(st, err, val) == [st |-> st, err |-> err, val |-> val]

Refused(st) == Deserialized(st, IF st = "Err" THEN "InvalidSliceSize" ELSE "", <<>>)

\* nonce, protocol, 3 reserved bytes, the two ports, the address; then for a peer
\* the remote port, 2 reserved bytes and the remote address
PayloadFields(op) ==
    CASE op = "Announce" -> <<>>
      [] op = "Map" -> <<12, 1, 3, 2, 2, 16>>
      [] op = "Peer" -> <<12, 1, 3, 2, 2, 16, 2, 2, 16>>

PayloadSize(op) == CASE op = "Announce" -> 0 [] op = "Map" -> Map_SIZE [] op = "Peer" -> Peer_SIZE

Payload_deserialize(h, g, op) ==
    LET p == deserialize_fields(g.rest, PayloadFields(op))
    IN  IF p.st # "Ok" THEN Refused(p.st)
        ELSE IF op = "Peer" /\ from_be_bytes(p.val[7]) = 0
        THEN Deserialized("Err", "ZeroRemotePeerPort", <<>>)
        ELSE LET o == advance_at_most(p.rest, max_options_size(PayloadSize(op)))
             IN  IF o.st # "Ok" THEN Refused(o.st)
                 ELSE Deserialized("Ok", "",
                        <<[version |-> h.val[1][1], lifetime |-> from_be_bytes(g.val[2]),
                           address |-> from_be_bytes(g.val[3]), op |-> op,
                           nonce |-> IF op = "Announce" THEN 0 ELSE from_be_bytes(p.val[1]),
                           protocol |-> IF op = "Announce" THEN Hopopt ELSE p.val[2][1],
                           internal_port |-> IF op = "Announce" THEN 0
                                             ELSE from_be_bytes(p.val[4]),
                           remote_peer_port |-> IF op = "Peer" THEN from_be_bytes(p.val[7])
                                                ELSE 0,
                           raw_options |-> o.val]>>)

Request_deserialize(data) ==
    LET h == deserialize_fields(data, <<1, 1>>)
    IN  IF h.st # "Ok" THEN Refused(h.st)
        ELSE LET b == h.val[2][1]
             IN  IF Low7(b) > LastOpCode THEN Deserialized("Err", "UnknownOpCode", <<>>)
                 ELSE IF RBit(b) # 0 THEN Deserialized("Err", "NotARequest", <<>>)
                 ELSE LET g == deserialize_fields(h.rest, <<2, 4, 16>>)
                      IN  IF g.st # "Ok" THEN Refused(g.st)
                          ELSE Payload_deserialize(h, g,
                                   CASE b = 0 -> "Announce" [] b = 1 -> "Map" [] b = 2 -> "Peer")

roundtrip(r) == Request_deserialize(Request_serialize(r))

\* Deserialize for u8
u8_deserialize(data) ==
    LET a == advance(data, 1)
    IN  IF a.st = "Ok" THEN Deserialized("Ok", "", <<a.val[1]>>) ELSE Refused(a.st)

SerializeRequest == Apply("serialize", Request_serialize(last.inp[1]))
RoundtripRequest == Apply("roundtrip", roundtrip(last.inp[1]))
DeserializeVersion == Apply("u8_deserialize", u8_deserialize(<<last.inp[1].version>>))

NextRequest == SerializeRequest \/ RoundtripRequest \/ DeserializeVersion

SpecRequest == InitWith(Requests) /\ [][NextRequest]_vars

(* ------------------------ headers written and read ---------------------- *)

\* s[lo .. lo + len] <- octets, on a buffer indexed from 0 in the source
Util_set(s, lo, octets) ==
    [i \in 1 .. Len(s) |-> IF i > lo /\ i <= lo + Len(octets) THEN octets[i - lo] ELSE s[i]]

\* &s[lo .. hi]
Util_get(s, lo, hi) == SubSeq(s, lo + 1, hi)

\* try_get / try_get_mut: the first size bytes, or None
try_get(s, size) == IF Len(s) < size THEN <<>> ELSE <<SubSeq(s, 1, size)>>

OptionCode_try_from(v) == v \in 1 .. 3

OptionHeader_filter == [kind |-> "option", code |-> 3, length |-> FilterOptionPayload_SIZE]
OptionHeader_third_party == [kind |-> "option", code |-> 1, length |-> ThirdPartyOptionPayload_SIZE]
OptionHeader_prefer_failure == [kind |-> "option", code |-> 2, length |-> 0]

RequestHeaders ==
    [kind : {"request"}, version : {1, 2}, opcode : 0 .. LastOpCode, lifetime : {0, 10, 65536},
     address : {0, 1, 257}]

ResponseHeaders ==
    [kind : {"response"}, version : {1, 2}, opcode : 0 .. LastOpCode,
     result : 0 .. LastResultCode, lifetime : {0, 1, 300}, epoch : {0, 1, 70000}]

OptionHeaders == {OptionHeader_filter, OptionHeader_third_party, OptionHeader_prefer_failure}

Headers == RequestHeaders \cup ResponseHeaders \cup OptionHeaders

HeaderSize(kind) ==
    CASE kind = "request" -> RequestHeader_SIZE
      [] kind = "response" -> ResponseHeader_SIZE
      [] kind = "option" -> OptionHeader_SIZE

\* the buffer after copy_to, or a panic when it is shorter than the header
Copied(st, buf) == [st |-> st, buf |-> buf]

\* a mutant of ResponseHeader::copy_to: it sets the R bit of a response
ResponseHeader_copy_to_rbit(h, s) ==
    IF try_get(s, ResponseHeader_SIZE) = <<>> THEN Copied("Panic", s)
    ELSE Copied("Ok",
           Util_set(Util_set(Util_set(Util_set(Util_set(s, 0, <<h.version>>),
                1, <<128 + h.opcode>>), 3, <<h.result>>), 4, to_be_bytes(h.lifetime, 4)),
                8, to_be_bytes(h.epoch, 4)))

RequestHeader_copy_to(h, s) ==
    IF try_get(s, RequestHeader_SIZE) = <<>> THEN Copied("Panic", s)
    ELSE Copied("Ok",
           Util_set(Util_set(Util_set(Util_set(s, 0, <<h.version>>), 1, <<h.opcode>>),
                4, to_be_bytes(h.lifetime, 4)), 8, to_be_bytes(h.address, 16)))

ResponseHeader_copy_to(h, s) ==
    IF try_get(s, ResponseHeader_SIZE) = <<>> THEN Copied("Panic", s)
    ELSE Copied("Ok",
           Util_set(Util_set(Util_set(Util_set(Util_set(s, 0, <<h.version>>),
                1, <<h.opcode>>), 3, <<h.result>>), 4, to_be_bytes(h.lifetime, 4)),
                8, to_be_bytes(h.epoch, 4)))

OptionHeader_copy_to(h, s) ==
    IF try_get(s, OptionHeader_SIZE) = <<>> THEN Copied("Panic", s)
    ELSE Copied("Ok", Util_set(Util_set(s, 0, <<h.code>>), 2, to_be_bytes(h.length, 2)))

copy_to(h, s) ==
    CASE h.kind = "request" -> RequestHeader_copy_to(h, s)
      [] h.kind = "response" -> ResponseHeader_copy_to(h, s)
      [] h.kind = "option" -> OptionHeader_copy_to(h, s)

TryFrom(ok, err, val) == [ok |-> ok, err |-> err, val |-> val]

RequestHeader_try_from(s0) ==
    IF try_get(s0, RequestHeader_SIZE) = <<>> THEN TryFrom(FALSE, "InvalidSliceLength", <<>>)
    ELSE LET s == try_get(s0, RequestHeader_SIZE)[1]
         IN  IF s[1] # 2 THEN TryFrom(FALSE, "VersionNotSupported", <<>>)
             ELSE IF RBit(s[2]) # 0 THEN TryFrom(FALSE, "NotARequest", <<>>)
             ELSE IF ~OpCode_try_from(s[2]) THEN TryFrom(FALSE, "NotAnOpCode", <<>>)
             ELSE TryFrom(TRUE, "",
                    <<[kind |-> "request", version |-> s[1], opcode |-> s[2],
                       lifetime |-> from_be_bytes(Util_get(s, 4, 8)),
                       address |-> from_be_bytes(Util_get(s, 8, 24))]>>)

ResponseHeader_try_from(s0) ==
    IF try_get(s0, ResponseHeader_SIZE) = <<>> THEN TryFrom(FALSE, "InvalidSliceLength", <<>>)
    ELSE LET s == try_get(s0, ResponseHeader_SIZE)[1]
         IN  IF s[1] # 2 THEN TryFrom(FALSE, "VersionNotSupported", <<>>)
             ELSE IF RBit(s[2]) > 0 THEN TryFrom(FALSE, "NotAResponse", <<>>)
             ELSE IF ~OpCode_try_from(s[2]) THEN TryFrom(FALSE, "NotAnOpCode", <<>>)
             ELSE IF ~ResultCode_try_from(s[4]) THEN TryFrom(FALSE, "NotAResultCode", <<>>)
             ELSE TryFrom(TRUE, "",
                    <<[kind |-> "response", version |-> s[1], opcode |-> s[2], result |-> s[4],
                       lifetime |-> from_be_bytes(Util_get(s, 4, 8)),
                       epoch |-> from_be_bytes(Util_get(s, 8, 12))]>>)

OptionHeader_try_from(s0) ==
    IF try_get(s0, OptionHeader_SIZE) = <<>> THEN TryFrom(FALSE, "InvalidSliceLength", <<>>)
    ELSE LET s == try_get(s0, OptionHeader_SIZE)[1]
             length == from_be_bytes(Util_get(s, 2, 4))
             check == CASE s[1] = 3 -> FilterOptionPayload_SIZE
                        [] s[1] = 1 -> ThirdPartyOptionPayload_SIZE
                        [] OTHER -> 0
         IN  IF ~OptionCode_try_from(s[1]) THEN TryFrom(FALSE, "NotAnOptionCode", <<>>)
             ELSE IF length # check THEN TryFrom(FALSE, "InvalidOptionLength", <<>>)
             ELSE TryFrom(TRUE, "", <<[kind |-> "option", code |-> s[1], length |-> length]>>)

try_from(kind, s) ==
    CASE kind = "request" -> RequestHeader_try_from(s)
      [] kind = "response" -> ResponseHeader_try_from(s)
      [] kind = "option" -> OptionHeader_try_from(s)

\* tests::roundtrip: copy_to into a zeroed buffer of SIZE bytes, then try_from
header_roundtrip(h) ==
    LET c == copy_to(h, Zeros(HeaderSize(h.kind)))
    IN  IF c.st = "Ok" THEN try_from(h.kind, c.buf) ELSE TryFrom(FALSE, "Panic", <<>>)

\* the same header read from all but the last byte of its buffer
header_truncated(h) ==
    LET c == copy_to(h, Zeros(HeaderSize(h.kind)))
    IN  try_from(h.kind, SubSeq(c.buf, 1, Len(c.buf) - 1))

CopyHeader == Apply("copy_to", copy_to(last.inp[1], Zeros(HeaderSize(last.inp[1].kind))))
RoundtripHeader == Apply("header_roundtrip", header_roundtrip(last.inp[1]))
TruncatedHeader == Apply("header_truncated", header_truncated(last.inp[1]))

NextHeaders == CopyHeader \/ RoundtripHeader \/ TruncatedHeader

SpecHeaders == InitWith(Headers) /\ [][NextHeaders]_vars

(* --------------------------- specifications --------------------------- *)
\* One record: the user's events and the server's responses race with the
\* record's timers (every response carries epoch 0, which always validates).
\* the responses that name one of the MaxRaced records, with its port or not
RacedPayloads == {p \in Payloads : p.nonce[1] <= MaxRaced}

Next ==
    \/ \E kind \in {"Once", "KeepAlive"}, ok \in BOOLEAN :
            RequestMap(MaxRaced, "Map", kind, 0, LongLife, 0, 0, ok)
    \/ \E ok \in BOOLEAN : Revoke(1, ok)
    \/ \E ok \in BOOLEAN : Renew(1, LongLife, 0, ok)
    \/ \E k \in Rands, ok \in BOOLEAN : DelayFired(k, ok)
    \/ \E t \in TimerIds : TimerWake(t, MaxRetrans, MaxTimes)
    \/ \E t \in TimerIds : TimerSend(t)
    \/ \E result \in ResultCodes, lifetime \in RespLifetimes, p \in RacedPayloads, k \in Rands :
            Response("Map", result, 0, lifetime, p, k)

Spec == Init /\ [][Next]_vars

\* Two KeepAlive records and a server that restarts: responses and
\* announcements carry epochs that validate or not against the stored one; the
\* user revokes; the timers of Running records fire.
Uniform(k) == [i \in 1 .. Len(mappings) |-> k]
OwnPayloads == {p \in Payloads : p.iport = Port}

NextRecovery ==
    \/ RequestMap(MaxMaps, "Map", "KeepAlive", 0, LongLife, 0, 0, TRUE)
    \/ \E id \in 1 .. MaxMaps : Revoke(id, TRUE)
    \/ DelayFired(0, TRUE)
    \/ \E t \in TimerIds : TimerWake(t, MaxResent, MaxResent)
    \/ \E t \in TimerIds : TimerSend(t)
    \/ \E e \in Epochs, lifetime \in RespLifetimes, p \in OwnPayloads :
            Response("Map", Success, e, lifetime, p, 0)
    \/ \E op \in OpCodes, result \in ResultCodes, e \in Epochs, p \in OwnPayloads,
          failAt \in 0 .. Len(mappings) :
            StaleResponse(op, result, e, LongLife, p, Uniform(0), failAt)
    \/ \E e \in Epochs, failAt \in 0 .. Len(mappings) :
            Announce(Success, e, Uniform(0), failAt)

SpecRecovery == Init /\ [][NextRecovery]_vars

\* One KeepAlive record and a server that answers the first request, before
\* its timer ends, and then falls silent: no renewal is answered. The timer threads run and the loop
\* handles every event it receives.
Answer ==
    /\ \E i \in 1 .. Len(mappings) : mappings[i].st = "Starting"
    /\ \E p \in OwnPayloads, k \in Rands : Response("Map", Success, 0, LongLife, p, k)

Fire == DelayFired(0, TRUE)
Wake == \E t \in TimerIds : TimerWake(t, MaxResent, ShiftBits)
Send == \E t \in TimerIds : TimerSend(t)

NextSilent ==
    \/ RequestMap(MaxRaced, "Map", "KeepAlive", 0, LongLife, 0, 0, TRUE)
    \/ Answer
    \/ Fire
    \/ Wake
    \/ Send

SpecSilent ==
    Init /\ [][NextSilent]_vars /\ WF_vars(Fire) /\ WF_vars(Wake) /\ WF_vars(Send)

\* The epoch validator alone: no record; the server's clock and the client's
\* run apart, and the responses carry every epoch up to MaxEpoch.
EpochRange == 0 .. MaxEpoch
NoPayload == [nonce |-> generate_nonce(1, 0), iport |-> Port, proto |-> Tcp,
              eport |-> AssignedPort]

NextEpoch ==
    \/ \E e \in EpochRange : Response("Map", Success, e, LongLife, NoPayload, 0)
    \/ \E e \in EpochRange : StaleResponse("Peer", Success, e, LongLife, NoPayload, <<>>, 0)
    \/ \E e \in EpochRange : Announce(Success, e, <<>>, 0)
    \/ Tick

SpecEpoch == Init /\ [][NextEpoch]_vars

\* The table alone: the user requests Map and Peer mappings, revokes and
\* drops them, and the server announces restarts; no timer ends.
NextTable ==
    \/ \E op \in OpCodes, r \in Rands, ok \in BOOLEAN :
            RequestMap(MaxMaps, op, "KeepAlive", 0, LongLife, r, 0, ok)
    \/ \E id \in 1 .. MaxMaps : Drop(id, TRUE)
    \/ \E id \in 1 .. MaxMaps : Revoke(id, TRUE)
    \/ Announce(Success, 0, Uniform(0), 0)

SpecTable == Init /\ [][NextTable]_vars

\* One record of every kind, whose requests the server answers with Success:
\* the timers of a Running record end, also those a later response has
\* replaced; the timers of the retransmissions do not.
NextRepeat ==
    \/ \E kind \in Kinds, rep \in 0 .. MaxRepeat :
            RequestMap(MaxRaced, "Map", kind, rep, LongLife, 0, 0, TRUE)
    \/ \E k \in Rands, ok \in BOOLEAN : DelayFired(k, ok)
    \/ \E t \in TimerIds : TimerWake(t, 0, 0)
    \/ \E t \in TimerIds : TimerSend(t)
    \/ \E lifetime \in RespLifetimes, p \in RacedPayloads, k \in Rands :
            Response("Map", Success, 0, lifetime, p, k)

SpecRepeat == Init /\ [][NextRepeat]_vars

\* One record, a listener that receives datagrams it cannot decode and a
\* socket whose sends may fail; the user revokes, renews and shuts down.
NextErrors ==
    \/ \E ok \in BOOLEAN : RequestMap(MaxRaced, "Map", "KeepAlive", 0, LongLife, 0, 0, ok)
    \/ \E ok \in BOOLEAN : Revoke(1, ok)
    \/ \E ok \in BOOLEAN : Renew(1, LongLife, 0, ok)
    \/ \E ok \in BOOLEAN : DelayFired(0, ok)
    \/ \E t \in TimerIds : TimerWake(t, MaxRetrans, MaxResent)
    \/ \E t \in TimerIds : TimerSend(t)
    \/ \E e \in Epochs, p \in RacedPayloads : Response("Map", Success, e, LongLife, p, 0)
    \/ ListenError
    \/ Shutdown

SpecErrors == Init /\ [][NextErrors]_vars

\* One record whose request nobody answers: its retransmissions are followed
\* up to the MaxBackoff-th, with every draw of the jitter.
NextBackoff ==
    \/ \E k \in Rands : RequestMap(MaxRaced, "Map", "KeepAlive", 0, LongLife, 0, k, TRUE)
    \/ \E k \in Rands : DelayFired(k, TRUE)
    \/ \E t \in TimerIds : TimerWakeWithin(t, MaxBackoff, 0, MaxSleep)
    \/ \E t \in TimerIds : TimerSend(t)

SpecBackoff == Init /\ [][NextBackoff]_vars

\* Map and Peer records and a server that answers them, with Success or with
\* an error; the user renews; no timer ends.
NextAssign ==
    \/ \E op \in OpCodes : RequestMap(MaxMaps, op, "KeepAlive", 0, LongLife, 0, 0, TRUE)
    \/ \E id \in 1 .. MaxMaps : Renew(id, LongLife, 0, TRUE)
    \/ \E op \in OpCodes, result \in ResultCodes, lifetime \in RespLifetimes, p \in Payloads :
            Response(op, result, 0, lifetime, p, 0)

SpecAssign == Init /\ [][NextAssign]_vars


\* One record whose lifetime changes: the user renews it with another
\* lifetime, the server grants another one, restarts and announces it; the
\* timers of the retransmissions and of the renewals end.
NextCache ==
    \/ RequestMap(MaxRaced, "Map", "KeepAlive", 0, LongLife, 0, 0, TRUE)
    \/ Revoke(1, TRUE)
    \/ \E lifetime \in RespLifetimes : Renew(1, lifetime, 0, TRUE)
    \/ DelayFired(0, TRUE)
    \/ \E t \in TimerIds : TimerWake(t, MaxRetrans, MaxTimes)
    \/ \E t \in TimerIds : TimerSend(t)
    \/ \E lifetime \in RespLifetimes, p \in RacedPayloads :
            Response("Map", Success, 0, lifetime, p, 0)
    \/ Announce(Success, 0, Uniform(0), 0)

SpecCache == Init /\ [][NextCache]_vars

(* ------------------ which record a response belongs to ------------------ *)
\* the records and responses the closure of find_map is given: a record holds
\* the fields of its request payload and its options, a response the fields
\* of its payload and the options parsed from it
RecordOptions == {<<>>, <<"PreferFailure">>}
ResponseOptions == {<<>>, <<"PreferFailure">>, <<"ThirdParty">>}

MatchInputs ==
    [m : [op : OpCodes, nonce : Nonces, iport : {Port}, proto : Protocols,
          eport : {0, AssignedPort}, raddr : RemoteAddrs, rport : {Port},
          options : RecordOptions],
     op : OpCodes,
     p : [nonce : Nonces, iport : {Port}, proto : Protocols,
          eport : {AssignedPort}, raddr : RemoteAddrs, rport : {Port}],
     options : ResponseOptions]

\* a.iter().zip(b.iter()).all(|(a, b)| a == b): the options of the request and
\* of the response are equal pair by pair, as far as the shorter list goes
options_agree(a, b) ==
    \A i \in 1 .. Len(a) : i <= Len(b) => a[i] = b[i]

\* .filter(opcode).find_map(closure) on one record: is it the one selected
find_map_selects(m, op, p, options) ==
    /\ matches(m, op, p)
    /\ options_agree(m.options, options)

FindMap ==
    Apply("find_map", find_map_selects(last.inp[1].m, last.inp[1].op,
                                       last.inp[1].p, last.inp[1].options))

NextMatch == FindMap

SpecMatch == InitWith(MatchInputs) /\ [][NextMatch]_vars

(* ----------------------- the prefix of a filter ------------------------ *)
Ipv4_LENGTH == 32
U8_MAX == 255

\* a filter as the user gives it to InboundMap::filter: the address family of
\* the client (Ip) and the prefix, any u8
IpFamilies == {"Ipv4Addr", "Ipv6Addr"}
UserFilters == [ip : IpFamilies, prefix : 0 .. U8_MAX]

\* how the crate is built: with overflow checks (they panic) or without (the
\* arithmetic wraps)
Builds == {"checked", "wrapping"}

\* IpAddress::LENGTH
LENGTH(ip) == IF ip = "Ipv4Addr" THEN Ipv4_LENGTH ELSE Ipv6_LENGTH

\* InboundMap::filter: it panics on a prefix greater than Ip::LENGTH, otherwise
\* the filter is pushed
InboundMap_filter(f) == f.prefix <= LENGTH(f.ip)

Computed(overflow, panic, value) == [overflow |-> overflow, panic |-> panic, value |-> value]

\* an addition and a subtraction of u8 under a build
u8_add(build, a, b) ==
    IF a + b <= U8_MAX THEN Computed(FALSE, FALSE, a + b)
    ELSE Computed(TRUE, build = "checked", (a + b) % (U8_MAX + 1))

u8_sub(build, a, b) ==
    IF a >= b THEN Computed(FALSE, FALSE, a - b)
    ELSE Computed(TRUE, build = "checked", (a - b) % (U8_MAX + 1))

\* f.prefix + 128 - Ip::LENGTH, from left to right in u8
wire_prefix(build, f) ==
    LET sum == u8_add(build, f.prefix, 128)
        diff == u8_sub(build, sum.value, LENGTH(f.ip))
    IN  IF sum.panic THEN sum
        ELSE Computed(sum.overflow \/ diff.overflow, diff.panic, diff.value)

AddFilter == Apply("filter", InboundMap_filter(last.inp[1]))

\* Event::InboundMap: the service computes the prefix of a filter that
\* InboundMap::filter has accepted
WirePrefix ==
    /\ InboundMap_filter(last.inp[1])
    /\ \E build \in Builds : Apply("wire_prefix", wire_prefix(build, last.inp[1]))

NextPrefix == AddFilter \/ WirePrefix

SpecPrefix == InitWith(UserFilters) /\ [][NextPrefix]_vars

(* --------------------------- the renewal wait --------------------------- *)
\* the lifetimes and attempt counts given to jitter_lifetime: update_mapping
\* is called with times = 0, 1, 2, ... as long as no response arrives, up to
\* the count at which the shifts overflow
JitterInputs ==
    [lifetime : {ShortLife, LongLife, 120}, times : 0 .. (ShiftBits - 3), k : Rands]

Waited(panic, wait) == [panic |-> panic, wait |-> wait]

\* Client::jitter_lifetime with its panic: the wait in ms, None, or no result
jitter_result(x) ==
    IF jitter_panics(x.times) THEN Waited(TRUE, None)
    ELSE Waited(FALSE, jitter_lifetime(x.lifetime, x.times, x.k))

JitterLifetime == Apply("jitter_lifetime", jitter_result(last.inp[1]))

\* lifetime as f32 * factor, before the test against 4 s
JitterFtime ==
    /\ ~jitter_panics(last.inp[1].times)
    /\ Apply("jitter_ftime",
             jitter_ftime(last.inp[1].lifetime, last.inp[1].times, last.inp[1].k))

NextJitter == JitterLifetime \/ JitterFtime

SpecJitter == InitWith(JitterInputs) /\ [][NextJitter]_vars

(* ------------------------------ properties ----------------------------- *)
\* the step ran Client::validate_epoch
IsValidationStep ==
    \/ last'.ev = "Response"
    \/ last'.ev = "Announce" /\ last'.res = Success

\* the Delay event at the head of the channel and the record it names, for the
\* step that handles it
IsDelayStep == last'.ev = "Delay" /\ queue # <<>>
FiredEvent == Head(queue)
FiredRecord == mappings[Head(queue).id]

\* the events in the channel that the thread of slot t has sent
EventsOf(t) == {j \in 1 .. Len(queue) : queue[j].tmr = t}

Range(seq) == {seq[j] : j \in 1 .. Len(seq)}

\* the step ran Client::server_lost_state
IsRecoveryStep ==
    \/ last'.ev = "Response" /\ ~last'.valid
    \/ last'.ev = "Announce" /\ last'.res = Success

\* C1: a Map or Peer response whose epoch fails validation is discarded and the
\* recovery runs: no record takes the response's lifetime, and every record
\* that was not terminal has its request sent again, is in Starting(0) and
\* holds a timer started in this step, of IRT with its jitter, the timer it
\* held before being cancelled.
C1_StaleResponseRecovers ==
    [][(last'.ev = "Response" /\ ~last'.valid) =>
            /\ Len(mappings') = Len(mappings)
            /\ \A i \in 1 .. Len(mappings) : mappings'[i].life = mappings[i].life
            /\ ~last'.ok => \A i \in 1 .. Len(mappings) :
                    /\ mappings'[i].st = mappings[i].st
                    /\ mappings'[i].n = mappings[i].n
            /\ last'.ok => \A i \in 1 .. Len(mappings) :
                    mappings[i].st \notin Terminal =>
                        /\ mappings'[i].st = "Starting" /\ mappings'[i].n = 0
                        /\ Cardinality({j \in 1 .. Len(last'.sent) :
                                            last'.sent[j] = resend_bytes(mappings[i])}) = 1
                        /\ mappings'[i].delay \in Range(last'.armed)
                        /\ timers'[mappings'[i].delay].stage = "sleep"
                        /\ timers'[mappings'[i].delay].id = i
                        /\ timers'[mappings'[i].delay].dur >= IRT * 900
                        /\ timers'[mappings'[i].delay].dur <= IRT * 1100
                        /\ (mappings[i].delay > 0 /\ timers[mappings[i].delay].stage = "sleep")
                                => \/ mappings[i].delay \in Range(last'.armed)
                                   \/ timers'[mappings[i].delay] = FreeTimer
       ]_vars

\* a response that names a record is discarded and both records are recovered
C1_Witness ==
    /\ last.ev = "Response" /\ ~last.valid /\ last.ok /\ last.hit # 0
    /\ last.res = Success
    /\ Len(last.sent) = 2
    /\ \A i \in 1 .. Len(mappings) : mappings[i].st = "Starting" /\ mappings[i].n = 0

\* C2: the recovery leaves every terminal record as it is: its state is kept,
\* its request is not sent and no timer is started for it.
C2_RecoverySkipsTerminal ==
    [][IsRecoveryStep =>
            \A i \in 1 .. Len(mappings) :
                mappings[i].st \in Terminal =>
                    /\ mappings'[i].st = mappings[i].st
                    /\ resend_bytes(mappings[i]) \notin Range(last'.sent)
                    /\ \A t \in Range(last'.armed) : timers'[t].id # i
       ]_vars

\* C3: the record a response is matched to is not terminal.
C3_MatchSkipsTerminal ==
    [][(last'.ev = "Response" /\ last'.valid /\ last'.hit # 0) =>
            mappings[last'.hit].st \notin Terminal]_vars

\* C4: a record that is Running and whose renewals are never answered is
\* eventually Expired.
C4_UnansweredRenewalsExpire ==
    \A i \in 1 .. MaxRaced :
        (i <= Len(mappings) /\ mappings[i].st = "Running")
            ~> (i <= Len(mappings) /\ mappings[i].st = "Expired")

\* C5: a renewal, whether the first or a retransmission, is sent less than L
\* seconds after the Success response that granted the lifetime L (`since` is
\* the time the record's timers have slept since that response).
C5_RenewalsBeforeLifetimeEnds ==
    [][(IsDelayStep /\ last'.ok /\ Len(last'.sent) > 0
            /\ mappings'[FiredEvent.id].st = "Updating"
            /\ mappings'[FiredEvent.id].since # None)
        => mappings'[FiredEvent.id].since < FiredRecord.life * 1000]_vars

\* C6: no Delay event of a timer on which Delay::ignore has been called is
\* handled by the service.
C6_NoEventAfterIgnore == last.ev = "Delay" => ~last.ign

C8_NoEventAfterDrop == last.ev = "Delay" => ~last.drp

\* C9: a Delay event handled for a record in Starting(n) leaves it in
\* Starting(n + 1), and when the send succeeds exactly one datagram, the
\* record's request, has been sent and exactly one timer started, for this
\* record, whose handle the record holds.
C9_StartingRetransmits ==
    [][(IsDelayStep /\ FiredRecord.st = "Starting") =>
            LET id == FiredEvent.id
                before == Reap(timers, FiredEvent.tmr)
                started == {t \in TimerIds : before[t].stage = "free" /\ timers'[t].stage # "free"}
            IN  /\ Len(mappings') = Len(mappings)
                /\ mappings'[id].st = "Starting"
                /\ mappings'[id].n = FiredRecord.n + 1
                /\ last'.ok =>
                        /\ last'.sent = <<resend_bytes(FiredRecord)>>
                        /\ Cardinality(started) = 1
                        /\ \A t \in started :
                                /\ timers'[t].stage = "sleep"
                                /\ timers'[t].id = id
                                /\ mappings'[id].delay = t
       ]_vars

\* a record retransmitted at a timer, its next timer asleep
C9_Witness ==
    /\ last.ev = "Delay" /\ last.ok /\ Len(last.sent) = 1
    /\ \E i \in 1 .. Len(mappings) :
            /\ mappings[i].st = "Starting" /\ mappings[i].n >= 1
            /\ mappings[i].delay > 0 /\ timers[mappings[i].delay].stage = "sleep"

\* C10: a Success response matched to a record stores the lifetime L, sets the
\* record Running and starts exactly one timer: of L seconds for Repeat(0), of
\* between L/2 and 5L/8 seconds for KeepAlive and Repeat(k > 0).
C10_SuccessArmsLifetimeTimer ==
    [][(last'.ev = "Response" /\ last'.res = Success /\ last'.hit # 0 /\ last'.valid) =>
            LET id == last'.hit
                L == last'.arg
                m == mappings[id]
            IN  /\ mappings'[id].st = "Running"
                /\ mappings'[id].life = L
                /\ Len(last'.armed) = 1
                /\ mappings'[id].delay = last'.armed[1]
                /\ timers'[last'.armed[1]].stage = "sleep"
                /\ timers'[last'.armed[1]].id = id
                /\ (m.kind = "Repeat" /\ m.rep = 0) => timers'[last'.armed[1]].dur = L * 1000
                /\ (m.kind = "KeepAlive" \/ (m.kind = "Repeat" /\ m.rep > 0)) =>
                        /\ timers'[last'.armed[1]].dur >= L * 500
                        /\ timers'[last'.armed[1]].dur <= L * 625
       ]_vars

\* C11: after a Success response is matched to a record, the record's stored
\* request carries the external port assigned in the response (every response
\* here assigns AssignedPort), so that what is sent for it later requests it.
C11_RequestCarriesAssignment ==
    [][(last'.ev = "Response" /\ last'.valid /\ last'.res = Success
            /\ last'.hit # 0 /\ last'.ok)
        => mappings'[last'.hit].eport = AssignedPort]_vars

\* C12: a response with a result other than Success, matched to a record,
\* cancels the timer the record holds, sets the record to Error(result), starts
\* no timer and sends nothing.
C12_ErrorResponseStops ==
    [][(last'.ev = "Response" /\ last'.valid /\ last'.res # Success /\ last'.hit # 0) =>
            LET id == last'.hit
                h == mappings[id].delay
            IN  /\ last'.ok
                /\ mappings'[id].st = "Error"
                /\ mappings'[id].err = last'.res
                /\ last'.sent = <<>>
                /\ last'.armed = <<>>
                /\ mappings'[id].delay <= 0
                /\ (h > 0 /\ timers[h].stage = "sleep") => timers'[h] = FreeTimer
                /\ (h > 0 /\ timers[h].stage # "sleep") => timers'[h].ign # "no"
                /\ \A t \in TimerIds : timers'[t].stage = "sleep" => timers'[t] = timers[t]
       ]_vars

\* an error response has stopped a record
C12_Witness ==
    /\ last.ev = "Response" /\ last.res = NoResources /\ last.hit # 0
    /\ mappings[last.hit].st = "Error"
    /\ mappings[last.hit].err = NoResources
    /\ \A t \in TimerIds : timers[t].stage = "free"

C14_EpochStoredWhenValid ==
    [][IsValidationStep =>
            IF last'.valid
            THEN epoch' = [set |-> TRUE, e |-> last'.ep, age |-> 0]
            ELSE epoch' = epoch
       ]_vars

\* a refused epoch has left the stored one, of another value and some age
C14_Witness ==
    /\ last.ev \in {"Response", "Announce"} /\ ~last.valid
    /\ epoch.set /\ epoch.e # last.ep /\ epoch.age > 0

\* C15: an Announce response with result Success runs the recovery once,
\* whether its epoch validates or not: every record that was not terminal has
\* its request sent once, is in Starting(0) and holds a timer of IRT with its
\* jitter started in this step; nothing is sent twice and no slot armed twice.
C15_AnnounceRecovers ==
    [][(last'.ev = "Announce" /\ last'.res = Success /\ last'.ok) =>
            /\ Len(mappings') = Len(mappings)
            /\ Cardinality(Range(last'.armed)) = Len(last'.armed)
            /\ \A i \in 1 .. Len(mappings) :
                    mappings[i].st \notin Terminal =>
                        /\ mappings'[i].st = "Starting" /\ mappings'[i].n = 0
                        /\ mappings'[i].life = mappings[i].life
                        /\ Cardinality({j \in 1 .. Len(last'.sent) :
                                            last'.sent[j] = resend_bytes(mappings[i])}) = 1
                        /\ mappings'[i].delay \in Range(last'.armed)
                        /\ timers'[mappings'[i].delay].stage = "sleep"
                        /\ timers'[mappings'[i].delay].id = i
                        /\ timers'[mappings'[i].delay].dur >= IRT * 900
                        /\ timers'[mappings'[i].delay].dur <= IRT * 1100
       ]_vars

\* an announcement whose epoch does not validate has recovered two records
C15_Witness ==
    /\ last.ev = "Announce" /\ last.res = Success /\ ~last.valid /\ last.ok
    /\ Len(last.sent) = 2
    /\ \A i \in 1 .. Len(mappings) : mappings[i].st = "Starting" /\ mappings[i].n = 0

LowestDropped ==
    LET D == {i \in 1 .. Len(mappings) : mappings[i].st = "Dropped"}
    IN  IF D = {} THEN Len(mappings) + 1
        ELSE CHOOSE i \in D : \A j \in D : i <= j

\* C17: a request for a mapping stores the new record at the lowest index
\* whose record is Dropped, or appends it when none is; that index is the id
\* given to the requester; no other record changes; and no step makes the
\* table shorter.
C17_LowestDroppedSlot ==
    [][/\ Len(mappings') >= Len(mappings)
       /\ (last'.ev = "Request" /\ last'.ok) =>
            /\ last'.id = LowestDropped
            /\ Len(mappings') = IF LowestDropped > Len(mappings)
                                THEN Len(mappings) + 1 ELSE Len(mappings)
            /\ mappings'[LowestDropped].st = "Starting"
            /\ mappings'[LowestDropped].n = 0
            /\ mappings'[LowestDropped].op = last'.op
            /\ mappings'[LowestDropped].handle
            /\ \A i \in 1 .. Len(mappings) : i # LowestDropped => mappings'[i] = mappings[i]
      ]_vars

\* the second of two Dropped slots was left alone and the first one taken
C17_Witness ==
    /\ last.ev = "Request" /\ last.ok /\ last.id = 1
    /\ Len(mappings) = 2
    /\ mappings[1].st = "Starting"
    /\ mappings[2].st = "Dropped"

\* C18: handling Revoke(id) sets the lifetime of the record's request to 0 and,
\* when its send succeeds, leaves the record without cached bytes and in
\* Revoked, its timer cancelled (freed if asleep, told to stay silent
\* otherwise), exactly one datagram sent, the record's request with lifetime 0,
\* and no timer started; no other record is touched.
C18_RevokeReleases ==
    [][(last'.ev = "Revoke") =>
            LET id == last'.id
                h == mappings[id].delay
            IN  /\ Len(mappings') = Len(mappings)
                /\ mappings'[id].life = 0
                /\ last'.ok =>
                        /\ mappings'[id].buf = <<>>
                        /\ mappings'[id].st = "Revoked"
                        /\ mappings'[id].delay <= 0
                        /\ (h > 0 /\ timers[h].stage = "sleep") => timers'[h] = FreeTimer
                        /\ (h > 0 /\ timers[h].stage # "sleep") => timers'[h].ign # "no"
                        /\ last'.sent = <<[bytes(mappings[id]) EXCEPT !.life = 0]>>
                        /\ last'.armed = <<>>
                        /\ \A t \in TimerIds : timers'[t].stage = "sleep" => timers'[t] = timers[t]
                        /\ \A i \in 1 .. Len(mappings) : i # id => mappings'[i] = mappings[i]
       ]_vars

\* a record has been revoked with one datagram of lifetime 0, no timer left asleep
C18_Witness ==
    /\ last.ev = "Revoke" /\ last.ok
    /\ mappings[last.id].st = "Revoked"
    /\ Len(last.sent) = 1 /\ last.sent[1].life = 0
    /\ \A t \in TimerIds : timers[t].stage # "sleep"

\* C19: handling Renew(id, lifetime) stores the lifetime in the record's
\* request and, when its send succeeds, leaves the record in Starting(0), its
\* former timer cancelled (freed if asleep, told to stay silent otherwise),
\* exactly one datagram sent, the record's request with the new lifetime, and
\* exactly one timer started, of IRT with its jitter of a tenth, which the
\* record holds; no other record is touched.
C19_RenewRestarts ==
    [][(last'.ev = "Renew") =>
            LET id == last'.id
                L == last'.arg
                h == mappings[id].delay
            IN  /\ Len(mappings') = Len(mappings)
                /\ mappings'[id].life = L
                /\ last'.ok =>
                        /\ mappings'[id].st = "Starting"
                        /\ mappings'[id].n = 0
                        /\ last'.sent = <<[bytes(mappings[id]) EXCEPT !.life = L]>>
                        /\ mappings'[id].buf = last'.sent
                        /\ (h > 0 /\ timers[h].stage # "sleep") => timers'[h].ign # "no"
                        /\ Len(last'.armed) = 1
                        /\ mappings'[id].delay = last'.armed[1]
                        /\ \A t \in TimerIds :
                                IF t = last'.armed[1]
                                THEN /\ timers[t].stage = "free" \/ t = h
                                     /\ timers'[t].stage = "sleep"
                                     /\ timers'[t].id = id
                                     /\ timers'[t].ign = "no"
                                     /\ timers'[t].dur >= IRT * 900
                                     /\ timers'[t].dur <= IRT * 1100
                                ELSE /\ t = h /\ timers[h].stage = "sleep" => timers'[t] = FreeTimer
                                     /\ timers'[t].stage = "sleep" => timers'[t] = timers[t]
                        /\ \A i \in 1 .. Len(mappings) : i # id => mappings'[i] = mappings[i]
       ]_vars

\* a record has been renewed: one datagram with the new lifetime, one timer
\* asleep, the record in Starting(0)
C19_Witness ==
    /\ last.ev = "Renew" /\ last.ok
    /\ mappings[last.id].st = "Starting" /\ mappings[last.id].n = 0
    /\ last.sent = <<bytes(mappings[last.id])>>
    /\ mappings[last.id].life = last.arg /\ last.arg > 0
    /\ Cardinality({t \in TimerIds : timers[t].stage = "sleep"}) = 1

\* C20: a Delay event handled for a record in Running: of kind Repeat(0), the
\* record becomes Expired and nothing is sent; of kind Repeat(k > 0), the kind
\* becomes Repeat(k - 1) and the update runs with attempt count 0; of kind
\* KeepAlive, the kind is unchanged and the update runs with attempt count 0.
\* The update with attempt count 0 of a lifetime L either finds less than
\* MinRenew seconds to wait and expires the record, or sends the record's
\* request once, sets Updating(0, L) and starts one timer of L/2 to 5L/8.
C20_RunningTimerEnds ==
    [][(IsDelayStep /\ FiredRecord.st = "Running") =>
            LET id == FiredEvent.id
                m == FiredRecord
                m2 == mappings'[id]
                L == m.life
                updated ==
                    \/ /\ L * 500 < MinRenew * 1000
                       /\ m2.st = "Expired"
                       /\ last'.sent = <<>> /\ last'.armed = <<>>
                    \/ /\ L * 625 >= MinRenew * 1000
                       /\ m2.st = "Updating" /\ m2.n = 0 /\ m2.ul = L
                       /\ last'.sent = <<resend_bytes(m)>>
                       /\ Len(last'.armed) = 1
                       /\ m2.delay = last'.armed[1]
                       /\ timers'[m2.delay].stage = "sleep"
                       /\ timers'[m2.delay].id = id
                       /\ timers'[m2.delay].dur >= L * 500
                       /\ timers'[m2.delay].dur <= L * 625
            IN  /\ Len(mappings') = Len(mappings)
                /\ m2.kind = m.kind
                /\ (m.kind = "Repeat" /\ m.rep = 0) =>
                        /\ last'.ok
                        /\ m2.st = "Expired" /\ m2.rep = 0
                        /\ last'.sent = <<>> /\ last'.armed = <<>>
                /\ (m.kind = "Repeat" /\ m.rep > 0) =>
                        /\ m2.rep = m.rep - 1
                        /\ last'.ok => updated
                /\ m.kind = "KeepAlive" =>
                        /\ m2.rep = m.rep
                        /\ last'.ok => updated
       ]_vars

\* a Repeat record that has counted a renewal and waits for its answer
C20_Witness ==
    /\ last.ev = "Delay" /\ last.ok /\ Len(last.sent) = 1
    /\ mappings[last.id].kind = "Repeat"
    /\ mappings[last.id].rep = MaxRepeat - 1
    /\ mappings[last.id].st = "Updating" /\ mappings[last.id].n = 0

RtBase(d) == Min(2 * d, MRT * 1000)

C23_EpochMonotone ==
    [][(IsValidationStep /\ epoch.set) =>
            /\ last'.valid => (last'.ep >= epoch.e - 1 /\ epoch'.e >= epoch.e - 1)
            /\ Epoch_validate_epoch(last'.ep, epoch.e, epoch.age) => last'.ep >= epoch.e - 1
            /\ Epoch_validate_epoch(last'.ep, epoch.e, epoch.age) <=> last'.valid
       ]_vars

\* an epoch behind the stored one has been accepted
C23_Witness ==
    /\ last.ev \in {"Response", "Announce"} /\ last.valid /\ last.back
    /\ epoch.set /\ epoch.e = last.ep /\ epoch.e > 0

\* C24: a Success response matched to a record that waits for its first answer
\* (Starting), be the record a Map or a Peer mapping, sends the record's handle
\* one Assigned alert with the external port and the lifetime of the response.
C24_FirstSuccessAlerts ==
    [][(last'.ev = "Response" /\ last'.valid /\ last'.res = Success /\ last'.hit # 0
            /\ mappings[last'.hit].st = "Starting")
        => last'.alert = <<[eport |-> AssignedPort, life |-> last'.arg]>>]_vars

\* a Map record's first Success response has sent its handle the alert
C24_Witness ==
    /\ last.ev = "Response" /\ last.res = Success /\ last.hit # 0
    /\ last.op = "Map" /\ mappings[last.hit].st = "Running"
    /\ last.alert = <<[eport |-> AssignedPort, life |-> last.arg]>>

\* C25: a response packet equals a request packet exactly when their opcodes
\* and versions agree and, for Map, the nonces and the internal ports are equal
\* and the protocols are equal or the response's is 0, and for Peer, the
\* nonces, protocols, internal ports, remote addresses and remote ports are
\* equal and the external ports are equal or the request's is 0.
C25_PacketMatch ==
    last.ev \in {"eq", "eq_rev"} =>
        LET res == last.inp[1].res
            req == last.inp[1].req
        IN  last.out[1] <=>
                /\ res.opcode = req.opcode
                /\ res.version = req.version
                /\ res.opcode = "Map" =>
                        /\ res.nonce = req.nonce
                        /\ res.internal_port = req.internal_port
                        /\ res.protocol = req.protocol \/ res.protocol = 0
                /\ res.opcode = "Peer" =>
                        /\ res.nonce = req.nonce
                        /\ res.protocol = req.protocol
                        /\ res.internal_port = req.internal_port
                        /\ res.remote_addr = req.remote_addr
                        /\ res.remote_port = req.remote_port
                        /\ res.external_port = req.external_port \/ req.external_port = 0

\* a Map response of protocol 0 has matched a request of another protocol
C25_Witness ==
    /\ last.ev = "eq" /\ last.out = <<TRUE>>
    /\ last.inp[1].res.opcode = "Map"
    /\ last.inp[1].res.protocol = 0 /\ last.inp[1].req.protocol # 0

\* C26: a request that its builder accepts is of at most 1100 bytes, a request
\* of more than 1100 bytes is refused with PacketTooBig, and the datagram the
\* service sends for a mapping is of at most 1100 bytes, whatever the number
\* of the mapping's filters.
C26_RequestWithinLimit ==
    last.ev \in {"packet_build", "request_build", "inbound_send"} =>
        /\ last.out[1].ok => last.out[1].size <= 1100
        /\ RequestPacket_size(last.inp[1]) > 1100 =>
                (~last.out[1].ok /\ last.out[1].err = "PacketTooBig")

\* the builder of types/packet.rs has refused a request of more than 1100 bytes
C26_Witness ==
    /\ last.ev = "packet_build"
    /\ last.inp[1].filters = 44
    /\ last.out[1] = Built(FALSE, 1116, "PacketTooBig")

\* C27: for a filter whose remote address is IPv4-mapped, the encoding of the
\* option and the decoding of its 20 bytes both fail with InvalidPrefix(prefix)
\* when the prefix is below 96, and both succeed when it is 96 or more.
C27_MappedPrefixChecked ==
    (last.ev \in {"filter_encode", "filter_decode"} /\ Mapped(last.inp[1])) =>
        IF last.inp[1].prefix < 96
        THEN /\ ~last.out[1].ok
             /\ last.out[1].err = "InvalidPrefix"
             /\ last.out[1].prefix = last.inp[1].prefix
        ELSE last.out[1].ok

\* the decoder has refused the prefix 90 of an IPv4-mapped address
C27_Witness ==
    /\ last.ev = "filter_decode"
    /\ last.inp[1] = [prefix |-> 90, addr |-> "v6mapped"]
    /\ ~last.out[1].ok /\ last.out[1].err = "InvalidPrefix" /\ last.out[1].prefix = 90

\* C28: the decoder of the response header accepts a slice exactly when it has
\* at least 24 bytes, its byte 0 is 2, bit 7 of its byte 1 is set, the other
\* bits of byte 1 are 0, 1 or 2 and its byte 3 is between 0 and 13; of the
\* slices long enough it refuses those of another version with
\* VersionNotSupported and, of version 2, those with bit 7 clear with
\* NotAResponse.
C28_ResponseHeaderAccepted ==
    last.ev = "header_try_from" =>
        LET s == last.inp[1]
            r == last.out[1]
        IN  /\ r.ok <=> /\ s.len >= 24
                        /\ s.b0 = 2
                        /\ s.b1 >= 128
                        /\ s.b1 - 128 \in {0, 1, 2}
                        /\ s.b3 \in 0 .. 13
            /\ (s.len >= 24 /\ s.b0 # 2) => (~r.ok /\ r.err = "VersionNotSupported")
            /\ (s.len >= 24 /\ s.b0 = 2 /\ s.b1 < 128) => (~r.ok /\ r.err = "NotAResponse")

\* a response of version 2 with bit 7 clear has been refused as not a response
C28_Witness ==
    /\ last.ev = "header_try_from"
    /\ last.inp[1].len = 24 /\ last.inp[1].b0 = 2 /\ last.inp[1].b1 = 1
    /\ last.out[1] = Decoded(FALSE, "NotAResponse")

\* C29: serializing a request (Map, Peer or Announce, with its options) and
\* deserializing the bytes gives Ok with a request equal to the original.
C29_RequestRoundtrip ==
    last.ev = "roundtrip" => last.out[1] = Deserialized("Ok", "", <<last.inp[1]>>)

C29_Witness ==
    /\ last.ev = "roundtrip"
    /\ last.inp[1].op = "Peer" /\ last.inp[1].raw_options # <<>>
    /\ last.out[1].st = "Err"

\* C30: a request or response header of version 2, or an option header built
\* by filter(), third_party() or prefer_failure(), written with copy_to into a
\* zeroed buffer of SIZE bytes and parsed with try_from, comes back as Ok of an
\* equal header.
C30_HeaderRoundtrip ==
    (last.ev = "header_roundtrip"
        /\ (last.inp[1].kind \in {"request", "response"} => last.inp[1].version = 2))
    => last.out[1] = TryFrom(TRUE, "", <<last.inp[1]>>)

C30_Witness ==
    /\ last.ev = "header_roundtrip"
    /\ last.inp[1].kind = "response" /\ last.inp[1].version = 2
    /\ last.inp[1].result = LastResultCode /\ last.inp[1].epoch > 65535
    /\ last.out[1].ok /\ last.out[1].val = <<last.inp[1]>>

\* C31: once a response has failed the epoch validation and the recovery has
\* run, the answers of the restarted server (Success, an epoch that advances
\* with the seconds) do not start the recovery again and take the recovered
\* records to Running: the answer to a request the recovery has just sent
\* again, with the epoch of that same second, validates and sets the record
\* it names Running.
C31_RecoveryNotRepeated ==
    [][(/\ last.ev = "Response" /\ ~last.valid /\ last.ok
        /\ last'.ev = "Response" /\ last'.res = Success /\ last'.ep = last.ep
        /\ last'.hit # 0)
        => /\ last'.valid
           /\ mappings'[last'.hit].st = "Running"
       ]_vars

\* the server's epoch went backwards and the recovery has sent the requests of
\* both records again
C31_Witness ==
    /\ last.ev = "Response" /\ ~last.valid /\ last.ok /\ last.back
    /\ Len(last.sent) = 2 /\ epoch.set /\ last.ep < epoch.e
    /\ \A i \in 1 .. Len(mappings) : mappings[i].st = "Starting"

\* the timers of record i that are armed, not cancelled and not yet fired: their
\* thread sleeps or is about to send its event, and ignore() was not called
PendingTimers(i) ==
    {t \in TimerIds : /\ timers[t].stage \in {"sleep", "checked"}
                      /\ timers[t].id = i
                      /\ timers[t].ign = "no"}

\* C32: at every point a record has at most one timer that is armed, not
\* cancelled and not yet fired, whatever the interleaving of the timer
\* threads, the listener's events and the user's.
C32_OnePendingTimer ==
    \A i \in 1 .. Len(mappings) : Cardinality(PendingTimers(i)) <= 1

\* a record whose timer was cancelled and replaced: the new one is its only
\* pending timer
C32_Witness ==
    /\ last.ev = "Renew" /\ last.ok
    /\ \E t \in TimerIds : timers[t].ign = "late" /\ timers[t].id = 1
    /\ Cardinality(PendingTimers(1)) = 1

\* C33: a record that a Success response granting the lifetime L has set
\* Running is not set Expired before L seconds have passed: the Delay event
\* that takes it from Running to Expired is the event of the timer started when
\* it entered Running, and that timer has slept L seconds.
C33_NoEarlyExpiry ==
    [][(IsDelayStep /\ FiredRecord.st = "Running" /\ mappings'[FiredEvent.id].st = "Expired")
        => /\ FiredRecord.delay = FiredEvent.tmr
           /\ FiredEvent.waited >= FiredRecord.life * 1000
       ]_vars

\* a record requested Once has expired at the event of the timer it held,
\* which had slept the whole lifetime
C33_Witness ==
    /\ last.ev = "Delay" /\ last.cur /\ ~last.ign /\ last.ok
    /\ mappings[last.id].st = "Expired" /\ mappings[last.id].kind = "Once"
    /\ last.arg = ShortLife * 1000

\* C34: the serialized bytes a record has cached are the serialization of its
\* current request, with its current lifetime, so that what a retransmission,
\* a renewal or the recovery sends again for a record is its current request.
C34_CacheIsCurrent ==
    [][/\ \A i \in 1 .. Len(mappings') :
            mappings'[i].buf # <<>> => mappings'[i].buf[1] = bytes(mappings'[i])
       /\ (IsDelayStep /\ last'.ok /\ last'.sent # <<>>)
            => last'.sent = <<bytes(mappings'[FiredEvent.id])>>
       /\ (IsRecoveryStep /\ last'.ok)
            => last'.sent = [i \in 1 .. Len(mappings') |-> bytes(mappings'[i])]
      ]_vars

\* the user has renewed a record with a shorter lifetime: the request sent
\* and the bytes cached carry the new lifetime
C34_Witness ==
    /\ last.ev = "Renew" /\ last.ok /\ last.arg = ShortLife
    /\ Len(last.sent) = 1 /\ last.sent[1].life = ShortLife
    /\ mappings[last.id].life = ShortLife
    /\ mappings[last.id].buf = <<last.sent[1]>>

\* C35: under a server that answers every request with Success, a Repeat(n)
\* record is renewed n times and expires when its last lifetime has passed,
\* and a KeepAlive record never expires: the only step that sets a record
\* Expired is the Delay event of a Running record of kind Repeat with no
\* renewal left, whose timer has slept the lifetime granted.
C35_RepeatEndsKeepAliveStays ==
    [][\A i \in 1 .. Len(mappings) :
            (/\ mappings[i].kind \in {"Repeat", "KeepAlive"}
             /\ mappings[i].st # "Expired" /\ mappings'[i].st = "Expired") =>
                /\ IsDelayStep /\ FiredEvent.id = i
                /\ mappings[i].st = "Running"
                /\ mappings[i].kind = "Repeat" /\ mappings[i].rep = 0
                /\ FiredEvent.waited = mappings[i].life * 1000
      ]_vars

\* a Repeat record with no renewal left has expired at the end of its lifetime
C35_Witness ==
    /\ last.ev = "Delay" /\ last.ok /\ last.cur
    /\ mappings[last.id].st = "Expired"
    /\ mappings[last.id].kind = "Repeat" /\ mappings[last.id].rep = 0
    /\ last.arg = LongLife * 1000

\* C36: a record is selected as the owner of a Map or Peer response if and
\* only if the opcodes are equal and, for Map, nonce and internal port are
\* equal and the protocol is equal or the response's is 0; for Peer, nonce,
\* protocol, internal port, remote address and remote port are equal and the
\* external port is equal or was requested as 0; the options of the response
\* play no part.
C36_SelectedByPredicate ==
    last.ev = "find_map" =>
        LET m == last.inp[1].m
            op == last.inp[1].op
            p == last.inp[1].p
        IN  last.out[1] <=>
                /\ m.op = op
                /\ m.nonce = p.nonce
                /\ m.iport = p.iport
                /\ IF op = "Map"
                   THEN m.proto = p.proto \/ p.proto = 0
                   ELSE /\ m.proto = p.proto
                        /\ m.raddr = p.raddr
                        /\ m.rport = p.rport
                        /\ (m.eport = p.eport \/ m.eport = 0)

\* a Map response that repeats the nonce, port and protocol of a Map record
\* and carries the option the record asked for selects that record
C36_Witness ==
    /\ last.ev = "find_map" /\ last.out = <<TRUE>>
    /\ last.inp[1].op = "Map" /\ last.inp[1].m.op = "Map"
    /\ last.inp[1].m.proto = Tcp /\ last.inp[1].p.proto = Tcp
    /\ last.inp[1].m.options = <<"PreferFailure">>
    /\ last.inp[1].options = <<"PreferFailure">>

\* C37: for a filter that InboundMap::filter accepts, the prefix the service
\* computes in u8 does not overflow and is prefix + 96 for an IPv4 client and
\* prefix for an IPv6 client.
C37_WirePrefix ==
    last.ev = "wire_prefix" =>
        /\ ~last.out[1].overflow
        /\ last.out[1].value = IF last.inp[1].ip = "Ipv4Addr"
                               THEN last.inp[1].prefix + MappedPrefix
                               ELSE last.inp[1].prefix

\* the widest filter of an IPv4 client goes out with the prefix 128
C37_Witness ==
    /\ last.ev = "wire_prefix"
    /\ last.inp[1] = [ip |-> "Ipv4Addr", prefix |-> Ipv4_LENGTH]
    /\ last.out[1] = Computed(FALSE, FALSE, 128)

\* C38: for a lifetime L and an attempt count n, the shifts of
\* jitter_lifetime do not overflow and the wait is L * f with f in
\* [1/2, 5/8] for n = 0 and f in [1 - 1/2^(n+1), 1 - 1/2^(n+1) + 1/2^(n+3)]
\* for n >= 1 (to the millisecond); the wait is positive and below L, and the
\* result is None exactly when the wait is below 4 s.
C38_RenewalWait ==
    /\ last.ev = "jitter_lifetime" => ~last.out[1].panic
    /\ last.ev = "jitter_ftime" =>
        LET L == last.inp[1].lifetime * 1000
            n == last.inp[1].times
            w == last.out[1]
            lo == IF n = 0 THEN L \div 2 ELSE L - L \div Pow2(n + 1)
            hi == IF n = 0 THEN (L * 5) \div 8 ELSE lo + (L \div Pow2(n + 1)) \div 4
        IN  /\ lo - 1 <= w /\ w <= hi + 1
            /\ 0 < w /\ w < L
            /\ jitter_lifetime(last.inp[1].lifetime, n, last.inp[1].k)
                    = IF w < MinRenew * 1000 THEN None ELSE w

\* the first renewal of a lifetime of 16 s is set between 8 and 10 s
C38_Witness ==
    /\ last.ev = "jitter_lifetime"
    /\ last.inp[1].lifetime = LongLife /\ last.inp[1].times = 0
    /\ ~last.out[1].panic
    /\ last.out[1].wait >= LongLife * 500 /\ last.out[1].wait <= LongLife * 625

\* C39: a Delay event for a record that is neither Starting, Running nor
\* Updating is ignored: every record keeps its fields (the handle of the
\* thread that has ended apart), no datagram is sent, no timer is armed, and
\* the epoch and the service are as before.
C39_DelayIgnored ==
    [][(IsDelayStep /\ FiredRecord.st \notin {"Starting", "Running", "Updating"}) =>
            /\ Len(mappings') = Len(mappings)
            /\ \A i \in 1 .. Len(mappings) :
                    [mappings'[i] EXCEPT !.delay = NoSignal]
                        = [mappings[i] EXCEPT !.delay = NoSignal]
            /\ last'.sent = <<>> /\ last'.armed = <<>> /\ last'.alert = <<>>
            /\ timers' = Reap(timers, FiredEvent.tmr)
            /\ epoch' = epoch /\ alive' = alive
      ]_vars

\* the retransmission timer of a record fired after the record was revoked
C39_Witness ==
    /\ last.ev = "Delay" /\ last.ok
    /\ mappings[last.id].st = "Revoked"
    /\ last.sent = <<>> /\ last.armed = <<>>

====
